---- MODULE Spec2Model ----
(***************************************************************************)
(* EPL analysis pipeline, transform stage (scripts/02_transform.py).       *)
(*                                                                         *)
(* The state is the content of data/cleaned/*.csv (the inputs the         *)
(* transform reads), the wall clock, the position of main() and the        *)
(* document it assembles and writes to data/dashboard_data.json.           *)
(*                                                                         *)
(* Representation                                                          *)
(*  - a CSV file is [exists, rows]; rows is the sequence of its records.   *)
(*  - an ISO date "YYYY-MM-DD" is the integer YYYYMMDD: the order of the   *)
(*    integers is the lexicographic order of the strings, and date[:7]     *)
(*    is the integer divided by 100.                                       *)
(*  - a pandas/float scalar is [cls, num, den]: the rational num/den, or   *)
(*    NaN / +inf / -inf by cls.                                            *)
(*  - a JSON value is a tagged node: int, float (num / 10^dp, or a         *)
(*    non-finite cls), str, bool, none, list (elems) and dict (items).     *)
(*  - player names are sequences of one-character strings; the empty      *)
(*    date string "" is the integer 0.                                    *)
(***************************************************************************)
EXTENDS Integers, Sequences, FiniteSets, TLC

VARIABLES
  matches_file,      \* data/cleaned/matches_clean.csv
  players_file,      \* data/cleaned/players.csv
  xg_teams_file,     \* data/cleaned/xg_teams.csv
  xg_players_file,   \* data/cleaned/xg_players.csv
  clock,             \* wall clock read by pd.Timestamp.now()
  pc,                \* position of main(): "idle", "money_rows", "fitted", "assembled"
  runs,              \* number of finished runs of main()
  exit_code,         \* exit status of the last finished run (-1: none yet)
  output,            \* the local `output` of main() (the assembled dict)
  money_vs_points,   \* the local `money_vs_points` of main() (line 634)
  output_file,       \* data/dashboard_data.json
  prev_output_file   \* data/dashboard_data.json as the run before left it

vars == <<matches_file, players_file, xg_teams_file, xg_players_file, clock,
          pc, runs, exit_code, output, money_vs_points, output_file,
          prev_output_file>>

(***************************************************************************)
(* Program constants                                                       *)
(***************************************************************************)
CURRENT_SEASON == "2025-26"
ACTIVE_SEASONS == <<"2022-23", "2023-24", "2024-25", "2025-26">>
FULL_SEASON_MATCHES == 380
MATCHDAYS_TOTAL == 38
SCORELINES_N == 10
TOP_SCORERS_N == 10
PLAYER_VALUE_N == 10
GOAL_SCORERS_N == 20
ASSIST_LEADERS_N == 15
BEST_VALUE_N == 15
MOST_CARDS_N == 10
BEST_VALUE_MIN_MINUTES == 450

(***************************************************************************)
(* Bounds of the model                                                     *)
(***************************************************************************)
MaxMatches == 3      \* rows of matches_clean.csv in the league family
MaxRuns == 2         \* runs of main() on the same inputs

(***************************************************************************)
(* Generic helpers                                                         *)
(***************************************************************************)
RECURSIVE SeqSum(_)
SeqSum(s) == IF s = <<>> THEN 0 ELSE Head(s) + SeqSum(Tail(s))

Abs(n) == IF n < 0 THEN -n ELSE n

RECURSIVE Pow10(_)
Pow10(d) == IF d = 0 THEN 1 ELSE 10 * Pow10(d - 1)

\* Floor of a / b for b > 0 (a of either sign).
FloorDiv(a, b) == a \div b

\* a / b (b > 0) rounded to the nearest integer, ties to even: what round()
\* does to a quotient that is exactly representable.  On a decimal tie that
\* is not exactly representable Python rounds the binary double instead.
RoundHalfEven(a, b) ==
  LET q == FloorDiv(a, b)
      r == a - q * b
  IN  IF 2 * r < b THEN q
      ELSE IF 2 * r > b THEN q + 1
      ELSE IF q % 2 = 0 THEN q ELSE q + 1

\* Lexicographic order of two integer tuples of the same length.
RECURSIVE LexLess(_, _)
LexLess(a, b) ==
  IF a = <<>> THEN FALSE
  ELSE IF Head(a) # Head(b) THEN Head(a) < Head(b)
  ELSE LexLess(Tail(a), Tail(b))

\* list.sort(key=...) / sorted(): the stable ascending sort of seq by the
\* integer tuples keys[i].  Element i goes to the position given by the
\* number of elements that sort before it.
StableSort(seq, keys) ==
  LET n == Len(seq)
      Rank(i) == Cardinality({j \in 1..n :
                     \/ LexLess(keys[j], keys[i])
                     \/ (~LexLess(keys[i], keys[j]) /\ j < i)}) + 1
  IN  [p \in 1..n |-> seq[CHOOSE i \in 1..n : Rank(i) = p]]

Take(seq, n) == SubSeq(seq, 1, IF Len(seq) < n THEN Len(seq) ELSE n)

\* df[field]: the column of a field of the rows.
Column(rows, field) == [i \in 1..Len(rows) |-> rows[i][field]]

\* All sequences over S of length 0..n.
SeqsUpTo(S, n) == UNION {[1..k -> S] : k \in 0..n}

(***************************************************************************)
(* pandas / float scalars                                                  *)
(***************************************************************************)
Q(n, d) == [cls |-> "fin", num |-> n, den |-> d]
NaN == [cls |-> "nan", num |-> 0, den |-> 1]

\* Series.max(): NaN for an empty series.
SeriesMax(s) ==
  IF s = <<>> THEN NaN
  ELSE Q(CHOOSE m \in {s[i] : i \in 1..Len(s)} :
            \A i \in 1..Len(s) : s[i] <= m, 1)

(***************************************************************************)
(* JSON nodes                                                              *)
(***************************************************************************)
JInt(n) == [kind |-> "int", n |-> n]
JStr(s) == [kind |-> "str", s |-> s]
JBool(b) == [kind |-> "bool", b |-> b]
JNone == [kind |-> "none"]
JList(elems) == [kind |-> "list", elems |-> elems]
JDict(items) == [kind |-> "dict", items |-> items]
\* A float with value num / 10^dp; zero has one representation.
JFloat(num, dp) ==
  [kind |-> "float", cls |-> "fin", num |-> num, dp |-> IF num = 0 THEN 0 ELSE dp]
JNonFinite(cls) == [kind |-> "float", cls |-> cls, num |-> 0, dp |-> 0]

\* The file that does not exist.
NoFile == [kind |-> "absent"]

(***************************************************************************)
(* safe_int / safe_float / sanitize_for_json                               *)
(***************************************************************************)
\* int() truncates toward zero (denominators are positive).
safe_int(val) ==
  IF val.cls = "nan" THEN 0
  ELSE IF val.num >= 0 THEN val.num \div val.den
  ELSE -((-val.num) \div val.den)

safe_float(val, decimals) ==
  IF val.cls = "nan" THEN JFloat(0, 0)
  ELSE IF val.cls = "fin"
       THEN JFloat(RoundHalfEven(val.num * Pow10(decimals), val.den), decimals)
       ELSE JNonFinite(val.cls)

\* Variant: lists are returned as they are, only dicts are descended into.
RECURSIVE sanitize_for_json_dicts_only(_)
sanitize_for_json_dicts_only(obj) ==
  IF obj.kind = "dict"
  THEN [obj EXCEPT !.items = [k \in DOMAIN obj.items |->
                                sanitize_for_json_dicts_only(obj.items[k])]]
  ELSE IF obj.kind = "float"
  THEN IF obj.cls = "nan" THEN JFloat(0, 0)
       ELSE IF obj.cls = "inf" \/ obj.cls = "-inf" THEN JFloat(0, 0)
       ELSE obj
  ELSE obj

\* Variant: dict entries whose value is None are left out.
RECURSIVE sanitize_for_json_dropping_none(_)
sanitize_for_json_dropping_none(obj) ==
  IF obj.kind = "dict"
  THEN [obj EXCEPT !.items = [k \in {x \in DOMAIN obj.items : obj.items[x] # JNone} |->
                                sanitize_for_json_dropping_none(obj.items[k])]]
  ELSE IF obj.kind = "list"
  THEN [obj EXCEPT !.elems = [i \in DOMAIN obj.elems |->
                                sanitize_for_json_dropping_none(obj.elems[i])]]
  ELSE IF obj.kind = "float"
  THEN IF obj.cls = "nan" THEN JFloat(0, 0)
       ELSE IF obj.cls = "inf" \/ obj.cls = "-inf" THEN JFloat(0, 0)
       ELSE obj
  ELSE obj

RECURSIVE sanitize_for_json(_)
sanitize_for_json(obj) ==
  IF obj.kind = "dict"
  THEN [obj EXCEPT !.items = [k \in DOMAIN obj.items |-> sanitize_for_json(obj.items[k])]]
  ELSE IF obj.kind = "list"
  THEN [obj EXCEPT !.elems = [i \in DOMAIN obj.elems |-> sanitize_for_json(obj.elems[i])]]
  ELSE IF obj.kind = "float"
  THEN IF obj.cls = "nan" THEN JFloat(0, 0)
       ELSE IF obj.cls = "inf" \/ obj.cls = "-inf" THEN JFloat(0, 0)
       ELSE obj
  ELSE obj

(***************************************************************************)
(* Python floats (IEEE 754 binary64, round to nearest, ties to even)       *)
(***************************************************************************)
\* A float is sign * m * 2^e with m = 0 or 2^52 <= m < 2^53.  m does not fit
\* a machine integer of the checker, so it is kept as LIMBS digits in base
\* 2^LIMB_BITS, least significant first.  Infinities, NaN, subnormals and
\* the sign of zero are left out: no quantity computed with them here gets there.
MANT_BITS == 53
LIMB_BITS == 14
LIMBS == 9

RECURSIVE Pow2(_)
Pow2(k) == IF k = 0 THEN 1 ELSE 2 * Pow2(k - 1)

LimbBase == Pow2(LIMB_BITS)

BigZero == [i \in 1..LIMBS |-> 0]

Limb(a, i) == IF i \in 1..LIMBS THEN a[i] ELSE 0

\* 0 <= n < 2^31
BigOfInt(n) ==
  [i \in 1..LIMBS |-> IF i <= 3 THEN ((n \div Pow2(LIMB_BITS * (i - 1))) % LimbBase) ELSE 0]

\* a < 2^31
BigToInt(a) == a[1] + LimbBase * a[2] + LimbBase * LimbBase * a[3]

\* The carry out of digit i of a column of (possibly negative) digit sums.
RECURSIVE Carry(_, _)
Carry(col, i) == IF i = 0 THEN 0 ELSE FloorDiv(col[i] + Carry(col, i - 1), LimbBase)

Norm(col) == [i \in 1..LIMBS |-> (col[i] + Carry(col, i - 1)) % LimbBase]

BigAdd(a, b) == Norm([i \in 1..LIMBS |-> a[i] + b[i]])

\* a - b for a >= b
BigSub(a, b) == Norm([i \in 1..LIMBS |-> a[i] - b[i]])

\* a * b for a, b < 2^56
BigMul(a, b) ==
  Norm([k \in 1..LIMBS |-> SeqSum([i \in 1..k |-> a[i] * b[k + 1 - i]])])

BigLess(a, b) ==
  \E i \in 1..LIMBS : a[i] < b[i] /\ \A j \in (i + 1)..LIMBS : a[j] = b[j]

\* a * 2^s, a / 2^s (floor)
ShiftLeft(a, s) ==
  LET q == s \div LIMB_BITS
      r == s % LIMB_BITS
  IN  [i \in 1..LIMBS |-> ((Limb(a, i - q) * Pow2(r)) % LimbBase)
                            + ((Limb(a, i - q - 1) * Pow2(r)) \div LimbBase)]

ShiftRight(a, s) ==
  LET q == s \div LIMB_BITS
      r == s % LIMB_BITS
  IN  [i \in 1..LIMBS |-> (Limb(a, i + q) \div Pow2(r))
                            + ((Limb(a, i + q + 1) % Pow2(r)) * Pow2(LIMB_BITS - r))]

\* Bit k (bit 0 is the lowest) and the number of bits of a.
Bit(a, k) == (Limb(a, k \div LIMB_BITS + 1) \div Pow2(k % LIMB_BITS)) % 2

BitLen(a) ==
  IF a = BigZero THEN 0
  ELSE LET h == CHOOSE i \in 1..LIMBS : a[i] # 0 /\ \A j \in (i + 1)..LIMBS : a[j] = 0
           n == CHOOSE k \in 1..LIMB_BITS : Pow2(k - 1) <= a[h] /\ a[h] < Pow2(k)
       IN  LIMB_BITS * (h - 1) + n

\* a is a multiple of 2^s
LowBitsZero(a, s) == ShiftLeft(ShiftRight(a, s), s) = a

FZero == [sign |-> 1, m |-> BigZero, e |-> 0]

\* The float nearest to sign * (n + t) * 2^e, where 0 <= t < 1 and sticky
\* tells whether t > 0 (n has more than MANT_BITS + 1 bits when sticky).
RoundBig(sign, n, e, sticky) ==
  LET len == BitLen(n)
      s == len - MANT_BITS
      q == ShiftRight(n, s)
      up == /\ Bit(n, s - 1) = 1
            /\ (sticky \/ ~LowBitsZero(n, s - 1) \/ Bit(q, 0) = 1)
      m == IF up THEN BigAdd(q, BigOfInt(1)) ELSE q
  IN  IF len = 0 THEN FZero
      ELSE IF s <= 0 THEN [sign |-> sign, m |-> ShiftLeft(n, -s), e |-> e + s]
      ELSE IF BitLen(m) > MANT_BITS THEN [sign |-> sign, m |-> ShiftRight(m, 1), e |-> e + s + 1]
      ELSE [sign |-> sign, m |-> m, e |-> e + s]

\* float(n) for an int |n| < 2^31
float_of_int(n) == RoundBig(IF n < 0 THEN -1 ELSE 1, BigOfInt(Abs(n)), 0, FALSE)

fneg(x) == IF x.m = BigZero THEN x ELSE [x EXCEPT !.sign = -x.sign]

\* x + y.  The operand with the smaller exponent is below a 64th of the last
\* place of the other when the exponents differ by more than 58.
fadd(x, y) ==
  LET hi == IF x.e >= y.e THEN x ELSE y
      lo == IF x.e >= y.e THEN y ELSE x
      a == ShiftLeft(hi.m, hi.e - lo.e)
  IN  IF x.m = BigZero THEN y
      ELSE IF y.m = BigZero THEN x
      ELSE IF hi.e - lo.e > 58 THEN hi
      ELSE IF hi.sign = lo.sign THEN RoundBig(hi.sign, BigAdd(a, lo.m), lo.e, FALSE)
      ELSE IF a = lo.m THEN FZero
      ELSE IF BigLess(a, lo.m) THEN RoundBig(lo.sign, BigSub(lo.m, a), lo.e, FALSE)
      ELSE RoundBig(hi.sign, BigSub(a, lo.m), lo.e, FALSE)

fsub(x, y) == fadd(x, fneg(y))

fmul(x, y) ==
  IF x.m = BigZero \/ y.m = BigZero THEN FZero
  ELSE RoundBig(x.sign * y.sign, BigMul(x.m, y.m), x.e + y.e, FALSE)

\* a * q for a digit q.
BigMulDigit(a, q) == Norm([i \in 1..LIMBS |-> a[i] * q])

QUOT_BITS == 56
NORM_BITS == 3

\* Long division in base 2^LIMB_BITS.  The digit of rem \div ds is within 2
\* below hat, the quotient of the two top limbs of rem by the top limb of ds
\* (whose top bit is set).
DivDigit(rem, ds, hat) ==
  CHOOSE c \in (hat - 2)..hat :
    /\ c >= 0
    /\ \E p \in {BigMulDigit(ds, c)} : ~BigLess(rem, p) /\ BigLess(BigSub(rem, p), ds)

DivEstimate(rem, d, j) ==
  LET top == (Limb(rem, j + 4) * LimbBase + Limb(rem, j + 3)) \div d[4]
  IN  IF top < LimbBase THEN top ELSE LimbBase - 1

\* One step: the digit at limb j of the quotient, and the remainder left.
DivStep(st, d, j) ==
  CHOOSE next \in
    UNION {{[rem |-> BigSub(st.rem, BigMulDigit(ds, q)),
             quot |-> [st.quot EXCEPT ![j] = q]] :
              q \in {DivDigit(st.rem, ds, DivEstimate(st.rem, d, j))}} :
             ds \in {ShiftLeft(d, LIMB_BITS * (j - 1))}} : TRUE

\* The digits of n \div d from limb j down, and the remainder.
RECURSIVE DivSteps(_, _, _)
DivSteps(st, d, j) ==
  IF j = 0 THEN st
  ELSE CHOOSE out \in {DivSteps(next, d, j - 1) : next \in {DivStep(st, d, j)}} : TRUE

QUOT_LIMBS == 5

BigDivMod(n, d) ==
  CHOOSE out \in
    {DivSteps(st, dd, QUOT_LIMBS) : st \in {[rem |-> n, quot |-> BigZero]}, dd \in {d}} : TRUE

\* x / y for y # 0: the quotient of the significands to QUOT_BITS binary places
\* and whether anything is left, rounded once.
fdiv(x, y) ==
  IF x.m = BigZero THEN FZero
  ELSE CHOOSE out \in
         {RoundBig(x.sign * y.sign, d.quot, x.e - y.e - QUOT_BITS, d.rem # BigZero) :
            d \in {BigDivMod(ShiftLeft(x.m, QUOT_BITS + NORM_BITS),
                             ShiftLeft(y.m, NORM_BITS))}} : TRUE

fpositive(x) == x.sign = 1 /\ x.m # BigZero

\* The float of a decimal literal n / 10^dp: the nearest one.
float_of_decimal(n, dp) ==
  CHOOSE out \in {fdiv(x, y) : x \in {float_of_int(n)}, y \in {float_of_int(Pow10(dp))}} : TRUE

\* round(x, dp) as the integer r of the result r / 10^dp: the exact value of
\* x times 10^dp, rounded to the nearest integer, ties to even.
round_float(x, dp) ==
  LET n == BigMul(x.m, BigOfInt(Pow10(dp)))
      s == -x.e
      q == ShiftRight(n, s)
      up == /\ Bit(n, s - 1) = 1
            /\ (~LowBitsZero(n, s - 1) \/ Bit(q, 0) = 1)
  IN  IF x.m = BigZero THEN 0
      ELSE IF s <= 0 THEN x.sign * BigToInt(ShiftLeft(n, -s))
      ELSE x.sign * (BigToInt(q) + IF up THEN 1 ELSE 0)

\* A list comprehension: the list of the values of f, each computed once.
List(f) == << >> \o f

\* sum(xs) of floats: added from the left, starting from 0 (the built-in sum
\* up to Python 3.11; 3.12 adds a compensation term at the end).
RECURSIVE fsum_from(_, _, _)
fsum_from(s, i, acc) ==
  IF i > Len(s) THEN acc
  ELSE CHOOSE out \in {fsum_from(s, i + 1, a) : a \in {fadd(acc, s[i])}} : TRUE

fsum(xs) == CHOOSE out \in {fsum_from(s, 1, FZero) : s \in {xs}} : TRUE

\* safe_float of a float that is not NaN: round(float(val), decimals)
safe_float_binary(x, decimals) ==
  CHOOSE out \in {JFloat(round_float(val, decimals), decimals) : val \in {x}} : TRUE

(***************************************************************************)
(* Current season and season status                                        *)
(***************************************************************************)
current_of(df) == SelectSeq(df, LAMBDA r : r.season = CURRENT_SEASON)

\* Python's order of the team names (sorted()).
TeamOrder == <<"Arsenal", "Chelsea", "Everton", "Liverpool">>
TeamRank(t) == CHOOSE i \in 1..Len(TeamOrder) : TeamOrder[i] = t

\* Variant: the set is iterated without sorted(), in an order that changes
\* from one process to the next (string hashing is seeded per process).
teams_of_unsorted(current) ==
  LET present == {current[i].home_team : i \in 1..Len(current)}
                 \cup {current[i].away_team : i \in 1..Len(current)}
      idx == {i \in 1..Len(TeamOrder) : TeamOrder[i] \in present}
      n == Cardinality(idx)
      asSeq == [k \in 1..n |->
                  TeamOrder[CHOOSE i \in idx : Cardinality({j \in idx : j < i}) = k - 1]]
  IN  IF clock % 2 = 0 THEN asSeq ELSE [k \in 1..n |-> asSeq[n + 1 - k]]

\* Variant: only the teams that played at home.
teams_of_home_only(current) ==
  LET present == {current[i].home_team : i \in 1..Len(current)}
      idx == {i \in 1..Len(TeamOrder) : TeamOrder[i] \in present}
      asSeq == [k \in 1..Cardinality(idx) |->
                  TeamOrder[CHOOSE i \in idx : Cardinality({j \in idx : j < i}) = k - 1]]
  IN  asSeq

\* sorted(set(home_team.unique()) | set(away_team.unique()))
teams_of(current) ==
  LET present == {current[i].home_team : i \in 1..Len(current)}
                 \cup {current[i].away_team : i \in 1..Len(current)}
      idx == {i \in 1..Len(TeamOrder) : TeamOrder[i] \in present}
      asSeq == [k \in 1..Cardinality(idx) |->
                  TeamOrder[CHOOSE i \in idx : Cardinality({j \in idx : j < i}) = k - 1]]
  IN  asSeq

season_status_of(current) ==
  LET matches_played == Len(current)
      ts == teams_of(current)
      games_per_team == [k \in 1..Len(ts) |->
          Len(SelectSeq(current, LAMBDA r : r.home_team = ts[k]))
          + Len(SelectSeq(current, LAMBDA r : r.away_team = ts[k]))]
      last_date == IF Len(current) > 0
                   THEN safe_int(SeriesMax(Column(current, "date")))
                   ELSE 0
  IN  JDict([matches_played |-> JInt(matches_played),
             matches_total |-> JInt(FULL_SEASON_MATCHES),
             matchdays_played |-> JInt(safe_int(SeriesMax(games_per_team))),
             matchdays_total |-> JInt(MATCHDAYS_TOTAL),
             is_complete |-> JBool(matches_played >= FULL_SEASON_MATCHES),
             last_match_date |-> JStr(last_date)])

(***************************************************************************)
(* League table                                                            *)
(***************************************************************************)
\* Variant: a win is worth two points.
points_rule_two_per_win(won, drawn) == won * 2 + drawn

\* pts = won * 3 + drawn
points_rule(won, drawn) == won * 3 + drawn

\* Variant: the quotient is an integer division (total_sot // total_shots).
shot_accuracy_floor_division(total_sot, total_shots) ==
  IF total_shots > 0
  THEN safe_float(Q((total_sot \div total_shots) * 100, 1), 2)
  ELSE JFloat(0, 0)

\* shot_acc: shots on target per shot, in percent, 0.0 without shots.
shot_accuracy_of(total_sot, total_shots) ==
  IF total_shots > 0
  THEN safe_float(Q(total_sot * 100, total_shots), 2)
  ELSE JFloat(0, 0)

\* Variant: defeats away from home are not counted.
build_team_stats_away_defeats_missed(team_matches, team_name) ==
  LET home == SelectSeq(team_matches, LAMBDA r : r.home_team = team_name)
      away == SelectSeq(team_matches, LAMBDA r : r.away_team = team_name)
      hw == Len(SelectSeq(home, LAMBDA r : r.result = "H"))
      hd == Len(SelectSeq(home, LAMBDA r : r.result = "D"))
      hl == Len(SelectSeq(home, LAMBDA r : r.result = "A"))
      aw == Len(SelectSeq(away, LAMBDA r : r.result = "A"))
      ad == Len(SelectSeq(away, LAMBDA r : r.result = "D"))
      al == 0
      gf == safe_int(Q(SeqSum(Column(home, "home_goals"))
                       + SeqSum(Column(away, "away_goals")), 1))
      ga == safe_int(Q(SeqSum(Column(home, "away_goals"))
                       + SeqSum(Column(away, "home_goals")), 1))
      total_shots == safe_int(Q(SeqSum(Column(home, "home_shots"))
                                + SeqSum(Column(away, "away_shots")), 1))
      total_sot == safe_int(Q(SeqSum(Column(home, "home_shots_on_target"))
                              + SeqSum(Column(away, "away_shots_on_target")), 1))
      shot_acc == shot_accuracy_of(total_sot, total_shots)
      cs_home == Len(SelectSeq(home, LAMBDA r : r.away_goals = 0))
      cs_away == Len(SelectSeq(away, LAMBDA r : r.home_goals = 0))
      played == hw + hd + hl + aw + ad + al
      won == hw + aw
      drawn == hd + ad
      lost == hl + al
      pts == points_rule(won, drawn)
  IN  [team |-> JStr(team_name),
       played |-> JInt(played),
       won |-> JInt(won),
       drawn |-> JInt(drawn),
       lost |-> JInt(lost),
       goals_for |-> JInt(gf),
       goals_against |-> JInt(ga),
       goal_difference |-> JInt(gf - ga),
       points |-> JInt(pts),
       home_won |-> JInt(hw),
       home_drawn |-> JInt(hd),
       home_lost |-> JInt(hl),
       away_won |-> JInt(aw),
       away_drawn |-> JInt(ad),
       away_lost |-> JInt(al),
       clean_sheets |-> JInt(cs_home + cs_away),
       total_shots |-> JInt(total_shots),
       total_shots_on_target |-> JInt(total_sot),
       shot_accuracy |-> shot_acc,
       goals_per_game |-> IF played > 0 THEN safe_float(Q(gf, played), 2)
                          ELSE JFloat(0, 0)]

build_team_stats(team_matches, team_name) ==
  LET home == SelectSeq(team_matches, LAMBDA r : r.home_team = team_name)
      away == SelectSeq(team_matches, LAMBDA r : r.away_team = team_name)
      hw == Len(SelectSeq(home, LAMBDA r : r.result = "H"))
      hd == Len(SelectSeq(home, LAMBDA r : r.result = "D"))
      hl == Len(SelectSeq(home, LAMBDA r : r.result = "A"))
      aw == Len(SelectSeq(away, LAMBDA r : r.result = "A"))
      ad == Len(SelectSeq(away, LAMBDA r : r.result = "D"))
      al == Len(SelectSeq(away, LAMBDA r : r.result = "H"))
      gf == safe_int(Q(SeqSum(Column(home, "home_goals"))
                       + SeqSum(Column(away, "away_goals")), 1))
      ga == safe_int(Q(SeqSum(Column(home, "away_goals"))
                       + SeqSum(Column(away, "home_goals")), 1))
      total_shots == safe_int(Q(SeqSum(Column(home, "home_shots"))
                                + SeqSum(Column(away, "away_shots")), 1))
      total_sot == safe_int(Q(SeqSum(Column(home, "home_shots_on_target"))
                              + SeqSum(Column(away, "away_shots_on_target")), 1))
      shot_acc == shot_accuracy_of(total_sot, total_shots)
      cs_home == Len(SelectSeq(home, LAMBDA r : r.away_goals = 0))
      cs_away == Len(SelectSeq(away, LAMBDA r : r.home_goals = 0))
      played == hw + hd + hl + aw + ad + al
      won == hw + aw
      drawn == hd + ad
      lost == hl + al
      pts == points_rule(won, drawn)
  IN  [team |-> JStr(team_name),
       played |-> JInt(played),
       won |-> JInt(won),
       drawn |-> JInt(drawn),
       lost |-> JInt(lost),
       goals_for |-> JInt(gf),
       goals_against |-> JInt(ga),
       goal_difference |-> JInt(gf - ga),
       points |-> JInt(pts),
       home_won |-> JInt(hw),
       home_drawn |-> JInt(hd),
       home_lost |-> JInt(hl),
       away_won |-> JInt(aw),
       away_drawn |-> JInt(ad),
       away_lost |-> JInt(al),
       clean_sheets |-> JInt(cs_home + cs_away),
       total_shots |-> JInt(total_shots),
       total_shots_on_target |-> JInt(total_sot),
       shot_accuracy |-> shot_acc,
       goals_per_game |-> IF played > 0 THEN safe_float(Q(gf, played), 2)
                          ELSE JFloat(0, 0)]

\* Variant: goal difference is compared ascending.
table_key_goal_difference_ascending(x) ==
  << -x.points.n, x.goal_difference.n, -x.goals_for.n >>

\* key=lambda x: (-x['points'], -x['goal_difference'], -x['goals_for'])
table_key(x) == << -x.points.n, -x.goal_difference.n, -x.goals_for.n >>

\* Variant: a sort that is not stable; rows with equal keys change places.
table_sort_reversing_ties(rows) ==
  LET reversed == [i \in 1..Len(rows) |-> rows[Len(rows) + 1 - i]]
  IN  StableSort(reversed, [i \in 1..Len(rows) |-> table_key(reversed[i])])

table_sort(rows) == StableSort(rows, [i \in 1..Len(rows) |-> table_key(rows[i])])

\* table_rows after the sort and the position numbering (rows are the items
\* of the dicts; JDict wraps them when the document is assembled).
table_rows_of(current) ==
  LET ts == teams_of(current)
      built == [k \in 1..Len(ts) |-> build_team_stats(current, ts[k])]
      sorted == table_sort(built)
  IN  [i \in 1..Len(sorted) |-> sorted[i] @@ [position |-> JInt(i)]]

(***************************************************************************)
(* Cumulative points                                                       *)
(***************************************************************************)
\* DataFrame.sort_values('date'): ascending by date.  numpy's quicksort is an
\* insertion sort on 16 elements or fewer, so equal dates keep their order.
\* Variant: the rows stay in the order they are in.
sort_values_date_skipped(rows) == rows

sort_values_date(rows) == StableSort(rows, [i \in 1..Len(rows) |-> << rows[i].date >>])

\* Series.map(dict): NaN for a value that is not a key.
home_pts(result) ==
  IF result = "H" THEN Q(3, 1) ELSE IF result = "D" THEN Q(1, 1)
  ELSE IF result = "A" THEN Q(0, 1) ELSE NaN

\* Variant: the away side is scored with the home side's mapping.
away_pts_as_home(result) ==
  IF result = "H" THEN Q(3, 1) ELSE IF result = "D" THEN Q(1, 1)
  ELSE IF result = "A" THEN Q(0, 1) ELSE NaN

\* away_pts = result.map({'A': 3, 'D': 1, 'H': 0})
away_pts(result) ==
  IF result = "A" THEN Q(3, 1) ELSE IF result = "D" THEN Q(1, 1)
  ELSE IF result = "H" THEN Q(0, 1) ELSE NaN

\* Series.cumsum(): NaN entries are skipped by the sum and stay NaN.
cumsum(s) ==
  [i \in 1..Len(s) |->
     IF s[i].cls = "nan" THEN NaN
     ELSE Q(SeqSum([j \in 1..i |-> IF s[j].cls = "nan" THEN 0 ELSE s[j].num]), 1)]

cumulative_series(current, team) ==
  LET current_sorted == sort_values_date(current)
      home_rows == SelectSeq(current_sorted, LAMBDA r : r.home_team = team)
      away_rows == SelectSeq(current_sorted, LAMBDA r : r.away_team = team)
      home_matches == [i \in 1..Len(home_rows) |->
                         [date |-> home_rows[i].date, pts |-> home_pts(home_rows[i].result)]]
      away_matches == [i \in 1..Len(away_rows) |->
                         [date |-> away_rows[i].date, pts |-> away_pts(away_rows[i].result)]]
      all_matches == sort_values_date(home_matches \o away_matches)
      cumulative == cumsum(Column(all_matches, "pts"))
  IN  [i \in 1..Len(all_matches) |->
         JDict([matchday |-> JInt(i), points |-> JInt(safe_int(cumulative[i]))])]

cumulative_points_of(current) ==
  LET ts == teams_of(current)
  IN  [t \in {ts[k] : k \in 1..Len(ts)} |-> JList(cumulative_series(current, t))]

(***************************************************************************)
(* xG table, xG vs actual, shot quality                                    *)
(***************************************************************************)
\* The value of a finite float node in units of 10^-dp.
Scaled(f, dp) == f.num * Pow10(dp - f.dp)

\* next((t for t in table_rows if t['team'] == team), None): the index of the
\* first row of that team, 0 for None.
find_team_row(table_rows, team) ==
  IF \E i \in 1..Len(table_rows) : table_rows[i].team.s = team
  THEN CHOOSE i \in 1..Len(table_rows) :
         /\ table_rows[i].team.s = team
         /\ \A j \in 1..(i - 1) : table_rows[j].team.s # team
  ELSE 0

\* One row of xg_teams.csv: xg_for / xg_against are in hundredths.
xg_table_row(row, table_rows) ==
  LET xg_for == safe_float(Q(row.xg_for, 100), 2)
      xg_against == safe_float(Q(row.xg_against, 100), 2)
      xg_diff == Q(Scaled(xg_for, 2) - Scaled(xg_against, 2), 100)
      k == find_team_row(table_rows, row.team)
      actual_pts == IF k = 0 THEN 0 ELSE table_rows[k].points.n
  IN  [team |-> JStr(row.team),
       xg_for |-> xg_for,
       xg_against |-> xg_against,
       goals_for |-> JInt(safe_int(Q(row.goals_for, 1))),
       goals_against |-> JInt(safe_int(Q(row.goals_against, 1))),
       xg_difference |-> safe_float(xg_diff, 2),
       actual_points |-> JInt(actual_pts)]

xg_scatter_row(row) ==
  LET xg_for == safe_float(Q(row.xg_for, 100), 2)
      goals_for == safe_int(Q(row.goals_for, 1))
  IN  [team |-> JStr(row.team),
       total_xg |-> xg_for,
       actual_goals |-> JInt(goals_for),
       difference |-> safe_float(Q(goals_for * 100 - Scaled(xg_for, 2), 100), 2)]

\* Variant: every xG team record gets a row, with 0 for a team without shots
\* or without a league-table row.
shot_quality_row_zero_fallback(row, table_rows) ==
  LET xg_for == safe_float(Q(row.xg_for, 100), 2)
      k == find_team_row(table_rows, row.team)
  IN  IF k # 0 /\ table_rows[k].total_shots.n > 0
      THEN << [team |-> JStr(row.team),
               total_shots |-> table_rows[k].total_shots,
               xg_per_shot |-> safe_float(Q(Scaled(xg_for, 2),
                                            100 * table_rows[k].total_shots.n), 3)] >>
      ELSE << [team |-> JStr(row.team),
               total_shots |-> JInt(0),
               xg_per_shot |-> JFloat(0, 0)] >>

\* The shot-quality rows of one xG team record: one row when the team has a
\* league-table row with total_shots > 0, none otherwise.
shot_quality_row(row, table_rows) ==
  LET xg_for == safe_float(Q(row.xg_for, 100), 2)
      k == find_team_row(table_rows, row.team)
  IN  IF k # 0 /\ table_rows[k].total_shots.n > 0
      THEN << [team |-> JStr(row.team),
               total_shots |-> table_rows[k].total_shots,
               xg_per_shot |-> safe_float(Q(Scaled(xg_for, 2),
                                            100 * table_rows[k].total_shots.n), 3)] >>
      ELSE << >>

RECURSIVE Flatten(_)
Flatten(ss) == IF ss = <<>> THEN <<>> ELSE Head(ss) \o Flatten(Tail(ss))

\* key=lambda x: -x[field], for a finite float field with dp decimals.
sort_desc_float(rows, field, dp) ==
  StableSort(rows, [i \in 1..Len(rows) |-> << -Scaled(rows[i][field], dp) >>])

\* Variant: the rows are left in the order of xg_teams.csv.
xg_table_of_file_order(xg_teams, table_rows) ==
  [i \in 1..Len(xg_teams) |-> xg_table_row(xg_teams[i], table_rows)]

xg_table_of(xg_teams, table_rows) ==
  sort_desc_float([i \in 1..Len(xg_teams) |-> xg_table_row(xg_teams[i], table_rows)],
                  "xg_difference", 2)

xg_vs_actual_of(xg_teams) ==
  [i \in 1..Len(xg_teams) |-> xg_scatter_row(xg_teams[i])]

shot_quality_of(xg_teams, table_rows) ==
  sort_desc_float(Flatten([i \in 1..Len(xg_teams) |->
                             shot_quality_row(xg_teams[i], table_rows)]),
                  "xg_per_shot", 3)

\* A list of dict rows as a JSON node.
JRows(rows) == JList([i \in 1..Len(rows) |-> JDict(rows[i])])

(***************************************************************************)
(* Top scorers (xG source)                                                 *)
(***************************************************************************)
\* Variant: the rows ascend by the column.
sort_values_ascending(rows, values) ==
  StableSort(rows, [i \in 1..Len(rows) |-> << values[i] >>])

\* DataFrame.sort_values(col, ascending=False): descending, equal values in
\* their original order (16 rows or fewer, see sort_values_date).
sort_values_desc(rows, values) ==
  StableSort(rows, [i \in 1..Len(rows) |-> << -values[i] >>])

top_scorers_of(xg_players) ==
  LET with_goals == SelectSeq(xg_players, LAMBDA r : r.goals > 0)
      scorers == Take(sort_values_desc(with_goals, Column(with_goals, "goals")),
                      TOP_SCORERS_N)
      Row(r) ==
        LET goals == safe_int(Q(r.goals, 1))
            xg_val == safe_float(Q(r.xg, 100), 2)
        IN  [player_name |-> JStr(r.player_name),
             team |-> JStr(r.team),
             goals |-> JInt(goals),
             assists |-> JInt(safe_int(Q(r.assists, 1))),
             xg |-> xg_val,
             xa |-> safe_float(Q(r.xa, 100), 2),
             minutes |-> JInt(safe_int(Q(r.minutes, 1))),
             goals_minus_xg |-> safe_float(Q(goals * 100 - Scaled(xg_val, 2), 100), 2),
             position |-> JStr(r.position)]
  IN  [i \in 1..Len(scorers) |-> Row(scorers[i])]

(***************************************************************************)
(* Monthly trends, home/away split, referees, scorelines, seasons          *)
(***************************************************************************)
\* The elements of a set of integers in ascending order.
SortedInts(S) ==
  [k \in 1..Cardinality(S) |-> CHOOSE x \in S : Cardinality({y \in S : y < x}) = k - 1]

\* Variant: the year of a date.
month_of_year_only(date) == date \div 10000

\* date.str[:7]: the year and month of a date.
month_of(date) == date \div 100

\* Series.mean(): NaN for an empty series.
SeriesMean(s) == IF s = <<>> THEN NaN ELSE Q(SeqSum(s), Len(s))

\* groupby('month').agg(...), avg_goals, sort_values('month'): one row per
\* month that has a match, in ascending month order.
monthly_trends_of(current) ==
  LET months == SortedInts({month_of(current[i].date) : i \in 1..Len(current)})
      Row(m) ==
        LET g == SelectSeq(current, LAMBDA r : month_of(r.date) = m)
            matches == Len(g)
            total_goals == SeqSum(Column(g, "total_goals"))
            avg_goals == Q(RoundHalfEven(total_goals * 100, matches), 100)
        IN  [month |-> JStr(m),
             matches |-> JInt(safe_int(Q(matches, 1))),
             total_goals |-> JInt(safe_int(Q(total_goals, 1))),
             avg_goals |-> safe_float(avg_goals, 2),
             home_wins |-> JInt(Len(SelectSeq(g, LAMBDA r : r.result = "H"))),
             draws |-> JInt(Len(SelectSeq(g, LAMBDA r : r.result = "D"))),
             away_wins |-> JInt(Len(SelectSeq(g, LAMBDA r : r.result = "A")))]
  IN  [k \in 1..Len(months) |-> Row(months[k])]

\* total = matches_played if matches_played > 0 else 1
total_floor(matches_played) == IF matches_played > 0 THEN matches_played ELSE 1

home_away_of(current) ==
  LET matches_played == Len(current)
      home_wins == Len(SelectSeq(current, LAMBDA r : r.result = "H"))
      draws == Len(SelectSeq(current, LAMBDA r : r.result = "D"))
      away_wins == Len(SelectSeq(current, LAMBDA r : r.result = "A"))
      total == total_floor(matches_played)
  IN  [home_wins |-> JInt(home_wins),
       draws |-> JInt(draws),
       away_wins |-> JInt(away_wins),
       home_goals_avg |-> safe_float(SeriesMean(Column(current, "home_goals")), 2),
       away_goals_avg |-> safe_float(SeriesMean(Column(current, "away_goals")), 2),
       total_matches |-> JInt(safe_int(Q(matches_played, 1))),
       home_win_pct |-> safe_float(Q(home_wins * 100, total), 2),
       draw_pct |-> safe_float(Q(draws * 100, total), 2),
       away_win_pct |-> safe_float(Q(away_wins * 100, total), 2)]

\* The order of the referee names (groupby sorts its keys).
RefereeOrder == <<"A Taylor", "M Oliver">>

\* if n < 3: continue
MIN_REFEREE_MATCHES == 3

\* Variant: the threshold is two matches.
referee_listed_from_two(n) == ~(n < 2)

\* Whether a referee's group of n matches gets a row.
referee_listed(n) == ~(n < MIN_REFEREE_MATCHES)

\* current.groupby('referee'): the groups in key order, the referees with
\* fewer than 3 matches skipped, then the stable sort by -avg_cards.
referee_stats_of(current) ==
  LET refs == SelectSeq(RefereeOrder,
                        LAMBDA ref : \E i \in 1..Len(current) : current[i].referee = ref)
      kept == SelectSeq(refs,
                LAMBDA ref : referee_listed(
                               Len(SelectSeq(current, LAMBDA r : r.referee = ref))))
      Row(ref) ==
        LET group == SelectSeq(current, LAMBDA r : r.referee = ref)
        IN  [referee |-> JStr(ref),
             matches |-> JInt(safe_int(Q(Len(group), 1))),
             avg_goals |-> safe_float(SeriesMean(Column(group, "total_goals")), 2),
             avg_fouls |-> safe_float(SeriesMean(Column(group, "total_fouls")), 2),
             avg_cards |-> safe_float(SeriesMean(Column(group, "total_cards")), 2),
             total_reds |-> JInt(safe_int(Q(SeqSum(Column(group, "home_reds"))
                                            + SeqSum(Column(group, "away_reds")), 1)))]
      ref_stats == [k \in 1..Len(kept) |-> Row(kept[k])]
  IN  sort_desc_float(ref_stats, "avg_cards", 2)

\* home_goals.astype(str) + '-' + away_goals.astype(str), as the pair of the
\* two numbers.
score_of(r) == << r.home_goals, r.away_goals >>

\* value_counts().head(10): the scores by count descending, equal counts in
\* the order the scores first appear.
scoreline_frequency_of(current) ==
  LET n == Len(current)
      firsts == SelectSeq([i \in 1..n |-> i],
                  LAMBDA i : \A j \in 1..(i - 1) : score_of(current[j]) # score_of(current[i]))
      counts == [k \in 1..Len(firsts) |->
                   [score |-> score_of(current[firsts[k]]),
                    count |-> Len(SelectSeq(current,
                                LAMBDA r : score_of(r) = score_of(current[firsts[k]])))]]
      top == Take(sort_values_desc(counts, Column(counts, "count")), SCORELINES_N)
  IN  [k \in 1..Len(top) |->
         [score |-> JStr(top[k].score), count |-> JInt(safe_int(Q(top[k].count, 1)))]]

\* One row per season of ACTIVE_SEASONS that has a match, in its key order.
season_comparison_of(df) ==
  LET seasons == SelectSeq(ACTIVE_SEASONS,
                           LAMBDA label : \E i \in 1..Len(df) : df[i].season = label)
      Row(label) ==
        LET ss == SelectSeq(df, LAMBDA r : r.season = label)
            hw == Len(SelectSeq(ss, LAMBDA r : r.result = "H"))
        IN  [season |-> JStr(label),
             matches |-> JInt(safe_int(Q(Len(ss), 1))),
             avg_goals |-> safe_float(SeriesMean(Column(ss, "total_goals")), 2),
             avg_cards |-> safe_float(SeriesMean(Column(ss, "total_cards")), 2),
             home_win_pct |-> safe_float(Q(hw * 100, Len(ss)), 2),
             avg_fouls |-> safe_float(SeriesMean(Column(ss, "total_fouls")), 2)]
  IN  [k \in 1..Len(seasons) |-> Row(seasons[k])]

(***************************************************************************)
(* Strings (player names): sequences of one-character strings             *)
(***************************************************************************)
UpperChars == <<"A","B","C","D","E","F","G","H","I","J","K","L","M",
                "N","O","P","Q","R","S","T","U","V","W","X","Y","Z">>
LowerChars == <<"a","b","c","d","e","f","g","h","i","j","k","l","m",
                "n","o","p","q","r","s","t","u","v","w","x","y","z">>

\* str.lower() on one character.
lower_char(c) ==
  IF \E i \in 1..Len(UpperChars) : UpperChars[i] = c
  THEN LowerChars[CHOOSE i \in 1..Len(UpperChars) : UpperChars[i] = c]
  ELSE c

lower(str) == [i \in 1..Len(str) |-> lower_char(str[i])]

\* NFKD + dropping the combining marks, on one character: a letter with a
\* diacritic becomes its base letter, everything else stays ("ø" has no
\* decomposition).
strip_accents_char(c) ==
  IF c = "é" \/ c = "è" \/ c = "ë" THEN "e"
  ELSE IF c = "á" \/ c = "ã" THEN "a"
  ELSE IF c = "ó" \/ c = "ö" THEN "o"
  ELSE IF c = "ú" \/ c = "ü" THEN "u"
  ELSE IF c = "í" THEN "i"
  ELSE IF c = "É" THEN "E"
  ELSE c

strip_accents(str) == [i \in 1..Len(str) |-> strip_accents_char(str[i])]

\* str.split(sep) for a one-character sep: the pieces between the
\* separators, empty pieces included.
RECURSIVE split_on(_, _)
split_on(str, sep) ==
  IF \A i \in 1..Len(str) : str[i] # sep THEN << str >>
  ELSE LET k == CHOOSE i \in 1..Len(str) :
                  str[i] = sep /\ \A j \in 1..(i - 1) : str[j] # sep
       IN  << SubSeq(str, 1, k - 1) >> \o split_on(SubSeq(str, k + 1, Len(str)), sep)

\* str.split(): the whitespace-separated words, no empty ones.
split_ws(str) == SelectSeq(split_on(str, " "), LAMBDA w : w # <<>>)

\* str.rstrip('.')
RECURSIVE rstrip_dot(_)
rstrip_dot(str) ==
  IF str # <<>> /\ str[Len(str)] = "." THEN rstrip_dot(SubSeq(str, 1, Len(str) - 1))
  ELSE str

\* a in b
is_substring(a, b) ==
  \E i \in 0..(Len(b) - Len(a)) : SubSeq(b, i + 1, i + Len(a)) = a

(***************************************************************************)
(* xG lookup indexes and enrich                                            *)
(***************************************************************************)
\* Variant: the pieces are indexed as they stand between the commas.
RECURSIVE Spaces(_)
Spaces(n) == IF n = 0 THEN "" ELSE " " \o Spaces(n - 1)

teams_of_field_unstripped(team_field) ==
  [i \in 1..Len(team_field) |->
     Spaces(team_field[i].pad_l) \o team_field[i].name \o Spaces(team_field[i].pad_r)]

\* The team field of xg_players.csv is the comma-separated list of the
\* player's teams; each piece is [pad_l, name, pad_r]: the team name with the
\* whitespace around it.  [t.strip() for t in teams_raw.split(',')]
teams_of_field(team_field) == [i \in 1..Len(team_field) |-> team_field[i].name]

xg_data_of(xr) ==
  [xg |-> safe_float(Q(xr.xg, 100), 2),
   xa |-> safe_float(Q(xr.xa, 100), 2),
   shots |-> JInt(safe_int(Q(xr.shots, 1))),
   key_passes |-> JInt(safe_int(Q(xr.key_passes, 1))),
   npxg |-> safe_float(Q(xr.npxg, 100), 2)]

\* Variant: the first word of the normalized name is indexed.
last_name_of_first_word(name) ==
  LET name_norm == lower(strip_accents(name))
      parts == split_ws(name_norm)
  IN  IF parts # <<>> THEN parts[1] ELSE name_norm

\* last word of the normalized name (the name itself when it has no word)
last_name_of(name) ==
  LET name_norm == lower(strip_accents(name))
      parts == split_ws(name_norm)
  IN  IF parts # <<>> THEN parts[Len(parts)] ELSE name_norm

\* Variant: a record is indexed under every team.
has_team_any(xr, team) == team = team

has_team(xr, team) ==
  \E k \in 1..Len(xr.team) : teams_of_field(xr.team)[k] = team

\* dict.get(key): the value the last assignment to the key left, or None.
NoHit == [found |-> FALSE]
Hit(data) == [found |-> TRUE, data |-> data]

\* hits: the indexes of the rows that were stored under the key.
last_hit(index_rows, hits) ==
  IF hits = {} THEN NoHit
  ELSE Hit(xg_data_of(index_rows[CHOOSE i \in hits : \A j \in hits : j <= i]))

xg_by_name_get(index_rows, name, team) ==
  last_hit(index_rows, {i \in 1..Len(index_rows) :
                          /\ index_rows[i].player_name = name
                          /\ has_team(index_rows[i], team)})

xg_by_last_get(index_rows, last, team) ==
  last_hit(index_rows, {i \in 1..Len(index_rows) :
                          /\ last_name_of(index_rows[i].player_name) = last
                          /\ has_team(index_rows[i], team)})

\* xg_by_team.get(team, []): the (name_norm, data) pairs of the team in the
\* order they were appended; the first one whose name contains `clean`.
xg_by_team_search(index_rows, clean, team) ==
  LET hits == {i \in 1..Len(index_rows) :
                 /\ has_team(index_rows[i], team)
                 /\ is_substring(clean, lower(strip_accents(index_rows[i].player_name)))}
  IN  IF hits = {} THEN NoHit
      ELSE Hit(xg_data_of(index_rows[CHOOSE i \in hits : \A j \in hits : i <= j]))

\* The first hit of a sequence of lookups, NoHit when there is none.
RECURSIVE first_hit(_)
first_hit(results) ==
  IF results = <<>> THEN NoHit
  ELSE IF Head(results).found THEN Head(results)
  ELSE first_hit(Tail(results))

\* Strategy 4: the dot-separated parts longer than 2 characters, each tried
\* as a last name (no part when the name has no dot).
dot_split_get(index_rows, pname, team) ==
  IF \E i \in 1..Len(pname) : pname[i] = "."
  THEN LET parts == SelectSeq(split_on(pname, "."), LAMBDA q : Len(q) > 2)
       IN  first_hit([i \in 1..Len(parts) |->
                        xg_by_last_get(index_rows, lower(strip_accents(parts[i])), team)])
  ELSE NoHit

\* Variant: the last-name lookup is tried before the exact lookups.
enrich_last_name_first(row, index_rows) ==
  LET pname == row.player_name
      fname == row.full_name
      team == row.team
      pname_norm == lower(strip_accents(pname))
      r1 == xg_by_name_get(index_rows, pname, team)
      r2 == IF fname # <<>> THEN xg_by_name_get(index_rows, fname, team) ELSE NoHit
      r3 == xg_by_last_get(index_rows, pname_norm, team)
      r4 == dot_split_get(index_rows, pname, team)
      r5 == xg_by_team_search(index_rows, rstrip_dot(pname_norm), team)
  IN  IF r3.found THEN r3
      ELSE IF r1.found THEN r1
      ELSE IF r2.found THEN r2
      ELSE IF r4.found THEN r4
      ELSE r5

\* index_rows: the rows of xg_players.csv the indexes were built from (none
\* when has_xg is false).
enrich(row, index_rows) ==
  LET pname == row.player_name
      fname == row.full_name
      team == row.team
      pname_norm == lower(strip_accents(pname))
      r1 == xg_by_name_get(index_rows, pname, team)
      r2 == IF fname # <<>> THEN xg_by_name_get(index_rows, fname, team) ELSE NoHit
      r3 == xg_by_last_get(index_rows, pname_norm, team)
      r4 == dot_split_get(index_rows, pname, team)
      r5 == xg_by_team_search(index_rows, rstrip_dot(pname_norm), team)
  IN  IF r1.found THEN r1
      ELSE IF r2.found THEN r2
      ELSE IF r3.found THEN r3
      ELSE IF r4.found THEN r4
      ELSE r5

\* xg_data.get(field): None when the mapping is empty.
xg_get(xg_data, field) == IF xg_data.found THEN xg_data.data[field] ELSE JNone

\* Variant: the rate is computed for any player who has played.
per90_any_minutes(stat, minutes) ==
  IF minutes < 1 THEN JInt(0)
  ELSE CHOOSE rate \in
         {safe_float_binary(fmul(per_minute, float_of_int(90)), 2) :
            per_minute \in {fdiv(float_of_int(stat), float_of_int(minutes))}} : TRUE

\* Variant: the rate is cut off after 2 decimals.
per90_truncated(stat, minutes) ==
  IF minutes < 90 THEN JInt(0)
  ELSE JFloat((stat * 9000) \div minutes, 2)

\* per90 (lines 506-510): stat / minutes * 90 in floats, left to right, then
\* rounded.
per90(stat, minutes) ==
  IF minutes < 90 THEN JInt(0)
  ELSE CHOOSE rate \in
         {safe_float_binary(fmul(per_minute, float_of_int(90)), 2) :
            per_minute \in {fdiv(float_of_int(stat), float_of_int(minutes))}} : TRUE

(***************************************************************************)
(* Player value and player leaderboards (fantasy source)                   *)
(***************************************************************************)
\* sorted(fpl['team'].unique())
fpl_teams_of(fpl) ==
  LET present == {fpl[i].team : i \in 1..Len(fpl)}
      idx == {i \in 1..Len(TeamOrder) : TeamOrder[i] \in present}
  IN  [k \in 1..Cardinality(idx) |->
         TeamOrder[CHOOSE i \in idx : Cardinality({j \in idx : j < i}) = k - 1]]

\* Rows with a 1-based rank field: "rank": len(rows) + 1 at each append.
with_rank(rows) == [i \in 1..Len(rows) |-> rows[i] @@ [rank |-> JInt(i)]]

\* price is in tenths; (goals / price).round(2) is in hundredths.
per_million(n, price) == RoundHalfEven(n * 1000, price)

player_value_of(players) ==
  LET value_df == SelectSeq(SelectSeq(players, LAMBDA r : r.goals > 0),
                            LAMBDA r : r.price > 0)
      goals_per_million == [i \in 1..Len(value_df) |->
                              per_million(value_df[i].goals, value_df[i].price)]
      top == Take(sort_values_desc(value_df, goals_per_million), PLAYER_VALUE_N)
  IN  [i \in 1..Len(top) |->
         [player_name |-> JStr(top[i].player_name),
          team |-> JStr(top[i].team),
          price |-> safe_float(Q(top[i].price, 10), 1),
          goals |-> JInt(safe_int(Q(top[i].goals, 1))),
          goals_per_million |->
             safe_float(Q(per_million(top[i].goals, top[i].price), 100), 2)]]

goal_scorers_of(fpl, index_rows) ==
  LET with_goals == SelectSeq(fpl, LAMBDA r : r.goals > 0)
      scorers_df == Take(sort_values_desc(with_goals, Column(with_goals, "goals")),
                         GOAL_SCORERS_N)
      Row(row) ==
        LET xg_data == enrich(row, index_rows)
            mins == safe_int(Q(row.minutes, 1))
            goals == safe_int(Q(row.goals, 1))
        IN  [player_name |-> JStr(row.player_name),
             team |-> JStr(row.team),
             position |-> JStr(row.position),
             goals |-> JInt(goals),
             assists |-> JInt(safe_int(Q(row.assists, 1))),
             minutes |-> JInt(mins),
             goals_per_90 |-> per90(goals, mins),
             price |-> safe_float(Q(row.price, 10), 1),
             xg |-> xg_get(xg_data, "xg"),
             shots |-> xg_get(xg_data, "shots")]
  IN  with_rank([i \in 1..Len(scorers_df) |-> Row(scorers_df[i])])

assist_leaders_of(fpl, index_rows) ==
  LET with_assists == SelectSeq(fpl, LAMBDA r : r.assists > 0)
      assists_df == Take(sort_values_desc(with_assists, Column(with_assists, "assists")),
                         ASSIST_LEADERS_N)
      Row(row) ==
        LET xg_data == enrich(row, index_rows)
            mins == safe_int(Q(row.minutes, 1))
            assists == safe_int(Q(row.assists, 1))
        IN  [player_name |-> JStr(row.player_name),
             team |-> JStr(row.team),
             position |-> JStr(row.position),
             assists |-> JInt(assists),
             goals |-> JInt(safe_int(Q(row.goals, 1))),
             minutes |-> JInt(mins),
             assists_per_90 |-> per90(assists, mins),
             xa |-> xg_get(xg_data, "xa"),
             key_passes |-> xg_get(xg_data, "key_passes"),
             price |-> safe_float(Q(row.price, 10), 1)]
  IN  with_rank([i \in 1..Len(assists_df) |-> Row(assists_df[i])])

\* Variant: the list is left in the alphabetical order of the teams.
iron_men_of_alphabetical(fpl) ==
  LET ts == fpl_teams_of(fpl)
      Row(team_name) ==
        LET team_players == SelectSeq(fpl, LAMBDA r : r.team = team_name)
            top_player == sort_values_desc(team_players,
                                           Column(team_players, "minutes"))[1]
            mins == safe_int(Q(top_player.minutes, 1))
        IN  [player_name |-> JStr(top_player.player_name),
             team |-> JStr(team_name),
             position |-> JStr(top_player.position),
             minutes |-> JInt(mins),
             games_equivalent |-> safe_float(Q(mins, 90), 1),
             goals |-> JInt(safe_int(Q(top_player.goals, 1))),
             assists |-> JInt(safe_int(Q(top_player.assists, 1)))]
      iron_men == [k \in 1..Len(ts) |-> Row(ts[k])]
  IN  iron_men

iron_men_of(fpl) ==
  LET ts == fpl_teams_of(fpl)
      Row(team_name) ==
        LET team_players == SelectSeq(fpl, LAMBDA r : r.team = team_name)
            top_player == sort_values_desc(team_players,
                                           Column(team_players, "minutes"))[1]
            mins == safe_int(Q(top_player.minutes, 1))
        IN  [player_name |-> JStr(top_player.player_name),
             team |-> JStr(team_name),
             position |-> JStr(top_player.position),
             minutes |-> JInt(mins),
             games_equivalent |-> safe_float(Q(mins, 90), 1),
             goals |-> JInt(safe_int(Q(top_player.goals, 1))),
             assists |-> JInt(safe_int(Q(top_player.assists, 1)))]
      iron_men == [k \in 1..Len(ts) |-> Row(ts[k])]
  IN  StableSort(iron_men, [k \in 1..Len(ts) |-> << -iron_men[k].minutes.n >>])

POSITIONS == <<"FWD", "MID", "DEF", "GK">>

goals_by_position_of(fpl) ==
  LET Row(pos) ==
        LET pos_df == SelectSeq(fpl, LAMBDA r : r.position = pos)
            total_g == safe_int(Q(SeqSum(Column(pos_df, "goals")), 1))
            total_a == safe_int(Q(SeqSum(Column(pos_df, "assists")), 1))
            count == Len(SelectSeq(pos_df, LAMBDA r : r.minutes > 0))
        IN  [position |-> JStr(pos),
             total_goals |-> JInt(total_g),
             total_assists |-> JInt(total_a),
             player_count |-> JInt(count),
             avg_goals |-> safe_float(IF count > 0 THEN Q(total_g, count) ELSE Q(0, 1), 2)]
  IN  [k \in 1..Len(POSITIONS) |-> Row(POSITIONS[k])]

best_value_of(fpl) ==
  LET active == SelectSeq(fpl, LAMBDA r : r.minutes >= BEST_VALUE_MIN_MINUTES /\ r.price > 0)
      ga_pm(r) == per_million(r.goals + r.assists, r.price)
      best_value == Take(sort_values_desc(active,
                                          [i \in 1..Len(active) |-> ga_pm(active[i])]),
                         BEST_VALUE_N)
  IN  with_rank([i \in 1..Len(best_value) |->
         [player_name |-> JStr(best_value[i].player_name),
          team |-> JStr(best_value[i].team),
          position |-> JStr(best_value[i].position),
          price |-> safe_float(Q(best_value[i].price, 10), 1),
          goals |-> JInt(safe_int(Q(best_value[i].goals, 1))),
          assists |-> JInt(safe_int(Q(best_value[i].assists, 1))),
          ga_per_million |-> safe_float(Q(ga_pm(best_value[i]), 100), 2),
          minutes |-> JInt(safe_int(Q(best_value[i].minutes, 1)))]])

most_cards_of(fpl) ==
  LET total_cards(r) == r.yellow_cards + r.red_cards
      carded == SelectSeq(fpl, LAMBDA r : total_cards(r) > 0)
      card_df == Take(sort_values_desc(carded,
                                       [i \in 1..Len(carded) |-> total_cards(carded[i])]),
                      MOST_CARDS_N)
  IN  [i \in 1..Len(card_df) |->
         [player_name |-> JStr(card_df[i].player_name),
          team |-> JStr(card_df[i].team),
          position |-> JStr(card_df[i].position),
          yellows |-> JInt(safe_int(Q(card_df[i].yellow_cards, 1))),
          reds |-> JInt(safe_int(Q(card_df[i].red_cards, 1))),
          total_cards |-> JInt(safe_int(Q(total_cards(card_df[i]), 1))),
          minutes |-> JInt(safe_int(Q(card_df[i].minutes, 1)))]]

player_leaderboards_of(fpl, index_rows) ==
  JDict([goal_scorers |-> JRows(goal_scorers_of(fpl, index_rows)),
         assist_leaders |-> JRows(assist_leaders_of(fpl, index_rows)),
         iron_men |-> JRows(iron_men_of(fpl)),
         goals_by_position |-> JRows(goals_by_position_of(fpl)),
         best_value |-> JRows(best_value_of(fpl)),
         most_cards |-> JRows(most_cards_of(fpl))])

(***************************************************************************)
(* Money vs points                                                         *)
(***************************************************************************)
\* players_df.groupby('team')['price'].sum(): one (team, sum) per team, in
\* the order of the team names; prices are in tenths.
squad_values_of(players) ==
  LET ts == fpl_teams_of(players)
  IN  [k \in 1..Len(ts) |->
         [team |-> ts[k],
          squad_value |-> SeqSum(Column(SelectSeq(players, LAMBDA r : r.team = ts[k]),
                                        "price"))]]

money_rows_of(players, table_rows) ==
  LET squad_values == squad_values_of(players)
      Row(sv) ==
        LET k == find_team_row(table_rows, sv.team)
            pts == table_rows[k].points.n
            played == table_rows[k].played.n
        IN  IF k = 0 THEN << >>
            ELSE << [team |-> JStr(sv.team),
                     squad_value |-> safe_float(Q(sv.squad_value, 10), 1),
                     points |-> JInt(pts),
                     played |-> JInt(played),
                     points_per_match |->
                        safe_float(IF played > 0 THEN Q(pts, played) ELSE Q(0, 1), 2)] >>
  IN  Flatten([i \in 1..Len(squad_values) |-> Row(squad_values[i])])

\* The statements of the regression (lines 657-668, 683-686) in the float
\* arithmetic of the code, each group of statements an operator on the values
\* the statements before it have assigned; x ** 2 is taken as x * x.

\* values, points, n (lines 657-659); sum(points) is a sum of ints.
regression_inputs(money_rows) ==
  [values |-> List([i \in 1..Len(money_rows) |->
                      float_of_decimal(Scaled(money_rows[i].squad_value, 1), 1)]),
   points |-> List([i \in 1..Len(money_rows) |-> float_of_int(money_rows[i].points.n)]),
   sum_points |-> float_of_int(SeqSum(Column(Column(money_rows, "points"), "n"))),
   n |-> float_of_int(Len(money_rows))]

\* mean_v, mean_p (lines 660-661)
regression_means(r) ==
  r @@ [mean_v |-> fdiv(fsum(r.values), r.n), mean_p |-> fdiv(r.sum_points, r.n)]

\* v - mean_v and p - mean_p of lines 662-663 and 684-685
regression_deviations(r) ==
  r @@ [dv |-> List([i \in 1..Len(r.values) |-> fsub(r.values[i], r.mean_v)]),
        dp |-> List([i \in 1..Len(r.points) |-> fsub(r.points[i], r.mean_p)])]

\* cov, var (lines 662-663) and sum((p - mean_p) ** 2 for p in points)
regression_sums(r) ==
  r @@ [cov |-> fsum([i \in 1..Len(r.dv) |-> fmul(r.dv[i], r.dp[i])]),
        var |-> fsum([i \in 1..Len(r.dv) |-> fmul(r.dv[i], r.dv[i])]),
        var_p |-> fsum([i \in 1..Len(r.dp) |-> fmul(r.dp[i], r.dp[i])])]

\* Variant: the slope is var / cov.
regression_slope_inverse(r) ==
  r @@ [slope |-> IF fpositive(r.var) /\ r.cov.m # BigZero
                  THEN fdiv(r.var, r.cov) ELSE FZero]

\* slope = cov / var if var > 0 else 0 (line 664)
regression_slope(r) ==
  r @@ [slope |-> IF fpositive(r.var) THEN fdiv(r.cov, r.var) ELSE FZero]

\* intercept (line 665) and the r_squared expression (lines 683-686)
regression_line(r) ==
  [values |-> r.values, slope |-> r.slope,
   intercept |-> fsub(r.mean_p, fmul(r.slope, r.mean_v)),
   r_squared |-> IF fpositive(r.var) /\ fpositive(r.var_p)
                 THEN fdiv(fmul(r.cov, r.cov), fmul(r.var, r.var_p))
                 ELSE FZero]

regression_sums_of(money_rows) ==
  CHOOSE sums \in
    {regression_sums(d) :
       d \in {regression_deviations(m) :
                m \in {regression_means(r) :
                         r \in {regression_inputs(money_rows)}}}} : TRUE

\* Variant of regression_of with the slope var / cov.
regression_of_inverse_slope(money_rows) ==
  CHOOSE line \in
    {regression_line(r) :
       r \in {regression_slope_inverse(sums) :
                sums \in {regression_sums_of(money_rows)}}} : TRUE

\* The fitted line of a non-empty money_rows (lines 657-665, 683-686).
regression_of(money_rows) ==
  CHOOSE line \in
    {regression_line(r) :
       r \in {regression_slope(sums) :
                sums \in {regression_sums_of(money_rows)}}} : TRUE

\* Variant: money_rows.sort (line 672) left out.
money_vs_points_with_unsorted(money_rows, reg) ==
  LET fitted == [i \in 1..Len(money_rows) |->
                   LET expected == fadd(fmul(reg.slope, reg.values[i]), reg.intercept)
                       pts == float_of_int(money_rows[i].points.n)
                   IN  money_rows[i] @@
                         [expected_points |-> safe_float_binary(expected, 2),
                          over_under |-> safe_float_binary(fsub(pts, expected), 2)]]
  IN  JDict([teams |-> JRows(List(fitted)),
             regression |-> JDict([slope |-> safe_float_binary(reg.slope, 4),
                                   intercept |-> safe_float_binary(reg.intercept, 2),
                                   r_squared |-> safe_float_binary(reg.r_squared, 3)])])

\* Lines 667-688 for the fitted line reg.
money_vs_points_with(money_rows, reg) ==
  LET fitted == [i \in 1..Len(money_rows) |->
                   LET expected == fadd(fmul(reg.slope, reg.values[i]), reg.intercept)
                       pts == float_of_int(money_rows[i].points.n)
                   IN  money_rows[i] @@
                         [expected_points |-> safe_float_binary(expected, 2),
                          over_under |-> safe_float_binary(fsub(pts, expected), 2)]]
  IN  JDict([teams |-> JRows(sort_desc_float(List(fitted), "over_under", 2)),
             regression |-> JDict([slope |-> safe_float_binary(reg.slope, 4),
                                   intercept |-> safe_float_binary(reg.intercept, 2),
                                   r_squared |-> safe_float_binary(reg.r_squared, 3)])])

\* `if money_rows:` (lines 656-688): the rows with their fitted values, sorted
\* by over_under, and the coefficients.
money_vs_points_fit(money_rows) ==
  CHOOSE out \in
    {money_vs_points_with(money_rows, reg) : reg \in {regression_of(money_rows)}} : TRUE

money_vs_points_of(players, table_rows) ==
  LET money_rows == money_rows_of(players, table_rows)
  IN  IF money_rows = << >> THEN JNone ELSE money_vs_points_fit(money_rows)

(***************************************************************************)
(* main(): load, aggregate, assemble (lines 83-718)                        *)
(***************************************************************************)
\* os.path.exists(matches_path) is false
matches_missing(matches) == ~matches.exists

\* has_fpl: players.csv was read.
has_fpl(players) == players.exists

\* Variant: one xG file is enough.
has_xg_either(xg_teams, xg_players) == xg_teams.exists \/ xg_players.exists

\* has_xg: xg_teams.csv and xg_players.csv were both read.
has_xg(xg_teams, xg_players) == xg_teams.exists /\ xg_players.exists

\* Variant: the indexes are built whenever xg_players.csv was read.
index_rows_unguarded(xg_teams, xg_players) == xg_players.rows

\* The rows of xg_players.csv that xg_by_name, xg_by_last and xg_by_team are
\* built from: none unless has_xg.
index_rows_of(xg_teams, xg_players) ==
  IF has_xg(xg_teams, xg_players) THEN xg_players.rows ELSE << >>

\* The dict assembled at lines 695-718 from the four input files and the
\* clock.  Requires matches_clean.csv to exist.
document_of(matches, players, xg_teams, xg_players, now) ==
  LET df == matches.rows
      fpl_ok == has_fpl(players)
      xg_ok == has_xg(xg_teams, xg_players)
      current == current_of(df)
      matches_played == Len(current)
      table_rows == table_rows_of(current)
      total == total_floor(matches_played)
      total_goals == safe_int(Q(SeqSum(Column(current, "total_goals")), 1))
      index_rows == index_rows_of(xg_teams, xg_players)
  IN  JDict([
        generated_at |-> JStr(now),
        season |-> JStr(CURRENT_SEASON),
        source |-> JStr("football-data.co.uk"),
        total_matches |-> JInt(safe_int(Q(matches_played, 1))),
        total_goals |-> JInt(total_goals),
        goals_per_match |-> safe_float(IF total > 0 THEN Q(total_goals, total)
                                       ELSE Q(0, 1), 2),
        season_status |-> season_status_of(current),
        league_table |-> JRows(table_rows),
        cumulative_points |-> JDict(cumulative_points_of(current)),
        monthly_trends |-> JRows(monthly_trends_of(current)),
        home_away |-> JDict(home_away_of(current)),
        referee_stats |-> JRows(referee_stats_of(current)),
        scoreline_frequency |-> JRows(scoreline_frequency_of(current)),
        season_comparison |-> JRows(season_comparison_of(df)),
        xg_table |-> IF xg_ok THEN JRows(xg_table_of(xg_teams.rows, table_rows))
                     ELSE JNone,
        xg_vs_actual |-> IF xg_ok THEN JRows(xg_vs_actual_of(xg_teams.rows))
                         ELSE JNone,
        top_scorers |-> IF xg_ok THEN JRows(top_scorers_of(xg_players.rows))
                        ELSE JNone,
        shot_quality |-> IF xg_ok THEN JRows(shot_quality_of(xg_teams.rows, table_rows))
                         ELSE JNone,
        player_value |-> IF fpl_ok THEN JRows(player_value_of(players.rows))
                         ELSE JNone,
        player_leaderboards |-> IF fpl_ok
                                THEN player_leaderboards_of(players.rows, index_rows)
                                ELSE JNone,
        money_vs_points |-> IF fpl_ok
                            THEN money_vs_points_of(players.rows, table_rows)
                            ELSE JNone])

(***************************************************************************)
(* Inputs                                                                  *)
(***************************************************************************)
Absent == [exists |-> FALSE, rows |-> << >>]
Present(rows) == [exists |-> TRUE, rows |-> rows]

\* A fixture of the season and the day it is played.
Fixtures ==
  { [home_team |-> "Arsenal", away_team |-> "Chelsea", date |-> 20250823,
     referee |-> "A Taylor"],
    [home_team |-> "Chelsea", away_team |-> "Liverpool", date |-> 20250913,
     referee |-> "A Taylor"],
    [home_team |-> "Liverpool", away_team |-> "Arsenal", date |-> 20250816,
     referee |-> "A Taylor"],
    [home_team |-> "Chelsea", away_team |-> "Arsenal", date |-> 20250927,
     referee |-> "M Oliver"] }

\* What happened in a match: result code, goals, shots, shots on target,
\* fouls, cards and red cards.
Outcomes ==
  { [result |-> "H", home_goals |-> 2, away_goals |-> 0, home_shots |-> 3,
     away_shots |-> 1, home_shots_on_target |-> 2, away_shots_on_target |-> 0,
     total_fouls |-> 21, total_cards |-> 3, home_reds |-> 0, away_reds |-> 1],
    [result |-> "D", home_goals |-> 1, away_goals |-> 1, home_shots |-> 0,
     away_shots |-> 0, home_shots_on_target |-> 0, away_shots_on_target |-> 0,
     total_fouls |-> 26, total_cards |-> 4, home_reds |-> 0, away_reds |-> 0],
    [result |-> "A", home_goals |-> 0, away_goals |-> 1, home_shots |-> 2,
     away_shots |-> 2, home_shots_on_target |-> 0, away_shots_on_target |-> 1,
     total_fouls |-> 18, total_cards |-> 0, home_reds |-> 0, away_reds |-> 0] }

\* A row of matches_clean.csv; total_goals is the derived column of the
\* cleansing stage.
MatchRow(season, f, o) ==
  [season |-> season] @@ f @@ o @@ [total_goals |-> o.home_goals + o.away_goals]

MatchRows ==
  {MatchRow(CURRENT_SEASON, f, o) : f \in Fixtures, o \in Outcomes}
  \cup {MatchRow("2024-25", f, o) :
          f \in {[home_team |-> "Arsenal", away_team |-> "Chelsea", date |-> 20240817,
                   referee |-> "A Taylor"]},
          o \in {x \in Outcomes : x.result = "H"}}

\* matches_clean.csv holds a fixture of a season once, in any row order.
MatchSeqs ==
  {rows \in SeqsUpTo(MatchRows, MaxMatches) :
     \A i, j \in 1..Len(rows) :
        i # j => <<rows[i].season, rows[i].home_team, rows[i].away_team>>
                 # <<rows[j].season, rows[j].home_team, rows[j].away_team>>}

Pad0(name) == [pad_l |-> 0, name |-> name, pad_r |-> 0]

FplPlayers ==
  << [player_name |-> <<"S","a","k","a">>,
      full_name |-> <<"B","u","k","a","y","o"," ","S","a","k","a">>,
      team |-> "Arsenal", position |-> "MID", goals |-> 2, assists |-> 1,
      minutes |-> 180, price |-> 100, yellow_cards |-> 1, red_cards |-> 0],
     [player_name |-> <<"E","n","z","o">>,
      full_name |-> <<"E","n","z","o"," ","F","e","r","n","á","n","d","e","z">>,
      team |-> "Chelsea", position |-> "MID", goals |-> 1, assists |-> 2,
      minutes |-> 450, price |-> 65, yellow_cards |-> 2, red_cards |-> 1],
     [player_name |-> <<"J",".","P","e","d","r","o">>,
      full_name |-> <<"J","o","ã","o"," ","P","e","d","r","o">>,
      team |-> "Chelsea", position |-> "FWD", goals |-> 2, assists |-> 0,
      minutes |-> 60, price |-> 75, yellow_cards |-> 0, red_cards |-> 0],
     [player_name |-> <<"E","k","i","t","i","k","é">>,
      full_name |-> <<"H","u","g","o"," ","E","k","i","t","i","k","é">>,
      team |-> "Liverpool", position |-> "FWD", goals |-> 1, assists |-> 1,
      minutes |-> 90, price |-> 100, yellow_cards |-> 0, red_cards |-> 0],
     [player_name |-> <<"P","i","c","k","f","o","r","d">>,
      full_name |-> <<"J","o","r","d","a","n"," ","P","i","c","k","f","o","r","d">>,
      team |-> "Everton", position |-> "GK", goals |-> 0, assists |-> 0,
      minutes |-> 270, price |-> 55, yellow_cards |-> 0, red_cards |-> 0] >>

XgPlayers ==
  << [player_name |-> <<"B","u","k","a","y","o"," ","S","a","k","a">>,
      team |-> << Pad0("Arsenal") >>, position |-> "F M", goals |-> 2,
      assists |-> 1, minutes |-> 180, xg |-> 150, xa |-> 80, shots |-> 5,
      key_passes |-> 4, npxg |-> 150],
     [player_name |-> <<"E","n","z","o"," ","F","e","r","n","a","n","d","e","z">>,
      team |-> << Pad0("Chelsea") >>, position |-> "M", goals |-> 1,
      assists |-> 2, minutes |-> 450, xg |-> 90, xa |-> 110, shots |-> 6,
      key_passes |-> 7, npxg |-> 14],
     [player_name |-> <<"J","o","ã","o"," ","P","e","d","r","o">>,
      team |-> << Pad0("Brighton"), [pad_l |-> 1, name |-> "Chelsea", pad_r |-> 0] >>,
      position |-> "F", goals |-> 2, assists |-> 0, minutes |-> 60, xg |-> 120,
      xa |-> 10, shots |-> 3, key_passes |-> 1, npxg |-> 120],
     [player_name |-> <<"H","u","g","o"," ","E","k","i","t","i","k","e">>,
      team |-> << Pad0("Liverpool") >>, position |-> "F", goals |-> 0,
      assists |-> 1, minutes |-> 90, xg |-> 70, xa |-> 30, shots |-> 2,
      key_passes |-> 2, npxg |-> 70] >>

XgTeams ==
  << [team |-> "Arsenal", xg_for |-> 210, xg_against |-> 90,
      goals_for |-> 2, goals_against |-> 1],
     [team |-> "Chelsea", xg_for |-> 0, xg_against |-> 150,
      goals_for |-> 0, goals_against |-> 2],
     [team |-> "Everton", xg_for |-> 120, xg_against |-> 130,
      goals_for |-> 1, goals_against |-> 1],
     [team |-> "Liverpool", xg_for |-> 100, xg_against |-> 100,
      goals_for |-> 1, goals_against |-> 0] >>

MatchFiles == {Absent} \cup {Present(rows) : rows \in MatchSeqs}
\* players.csv: not there, a header without player rows, or the players.
PlayerFiles == {Absent, Present(<< >>), Present(FplPlayers)}
XgTeamFiles == {Absent, Present(XgTeams)}
XgPlayerFiles == {Absent, Present(XgPlayers)}

(***************************************************************************)
(* The state machine                                                       *)
(***************************************************************************)
\* Every match file with both xG files and no players file, and every
\* combination of enrichment files with the match files of at most one row.
Init ==
  /\ matches_file \in MatchFiles
  /\ players_file \in PlayerFiles
  /\ xg_teams_file \in XgTeamFiles
  /\ xg_players_file \in XgPlayerFiles
  /\ \/ /\ players_file = Absent
        /\ xg_teams_file.exists
        /\ xg_players_file.exists
     \/ Len(matches_file.rows) <= 1
  /\ clock = 0
  /\ pc = "idle"
  /\ runs = 0
  /\ exit_code = -1
  /\ output = JNone
  /\ money_vs_points = JNone
  /\ output_file = NoFile
  /\ prev_output_file = NoFile

\* main() from its start to the assembled `output` dict (lines 83-718), or
\* to sys.exit(1) when matches_clean.csv is missing (lines 86-88).
Aggregate ==
  /\ pc = "idle"
  /\ runs < MaxRuns
  /\ IF matches_missing(matches_file)
     THEN /\ exit_code' = 1
          /\ runs' = runs + 1
          /\ prev_output_file' = output_file
          /\ UNCHANGED <<pc, output, money_vs_points, output_file, clock>>
     ELSE /\ output' = document_of(matches_file, players_file, xg_teams_file,
                                   xg_players_file, clock)
          /\ money_vs_points' = output'.items.money_vs_points
          /\ clock' = clock + 1
          /\ pc' = "assembled"
          /\ UNCHANGED <<runs, exit_code, output_file, prev_output_file>>
  /\ UNCHANGED <<matches_file, players_file, xg_teams_file, xg_players_file>>

\* main() from the sanitization pass to its end (lines 720-734): the file is
\* written with the sanitized document.
Export ==
  /\ pc = "assembled"
  /\ output_file' = sanitize_for_json(output)
  /\ prev_output_file' = output_file
  /\ exit_code' = 0
  /\ runs' = runs + 1
  /\ pc' = "idle"
  /\ UNCHANGED <<matches_file, players_file, xg_teams_file, xg_players_file,
                 clock, output, money_vs_points>>

Next == Aggregate \/ Export

Spec == Init /\ [][Next]_vars

\* The export step alone, applied to documents that hold every kind of value
\* at every level: dict -> list -> dict -> value, dict -> dict -> list -> list
\* -> value, and a top-level value.
MaxElems == 2

SanitizeLeaves ==
  {JInt(1), JStr("x"), JNone, JFloat(25, 1),
   JNonFinite("nan"), JNonFinite("inf"), JNonFinite("-inf")}

SanitizeDocuments ==
  {JDict([total |-> t,
          section |-> JList([i \in 1..Len(vs) |-> JDict([value |-> vs[i]])]),
          nested |-> JDict([inner |-> JList(<< JList(<< n >>) >>)])]) :
     t \in SanitizeLeaves, vs \in SeqsUpTo(SanitizeLeaves, MaxElems),
     n \in SanitizeLeaves}

SanitizeInit ==
  /\ matches_file = Present(<< >>)
  /\ players_file = Absent
  /\ xg_teams_file = Absent
  /\ xg_players_file = Absent
  /\ clock = 1
  /\ pc = "assembled"
  /\ runs = 0
  /\ exit_code = -1
  /\ output \in SanitizeDocuments
  /\ money_vs_points = JNone
  /\ output_file = NoFile
  /\ prev_output_file = NoFile

SanitizeSpec == SanitizeInit /\ [][Export]_vars

(***************************************************************************)
(* The run on one fantasy player and a few xG player records               *)
(***************************************************************************)
MaxXgRecords == 2

\* Fantasy rows: a short name, a full name and a team; each player has a
\* goal and an assist, so that each is on both leaderboards.
EnrichFplRows ==
  { [player_name |-> <<"O","d","e">>,
     full_name |-> <<"M","a","x"," ","O","d","e">>,
     team |-> "Arsenal", position |-> "MID", goals |-> 1, assists |-> 1,
     minutes |-> 90, price |-> 50, yellow_cards |-> 0, red_cards |-> 0],
    [player_name |-> <<"O","d","é">>,
     full_name |-> <<"M","a","x"," ","O","d","é">>,
     team |-> "Arsenal", position |-> "MID", goals |-> 1, assists |-> 1,
     minutes |-> 90, price |-> 50, yellow_cards |-> 0, red_cards |-> 0],
    [player_name |-> <<"M",".","O","d","e">>,
     full_name |-> <<"M","a","x","i","m"," ","O","d","e">>,
     team |-> "Arsenal", position |-> "MID", goals |-> 1, assists |-> 1,
     minutes |-> 90, price |-> 50, yellow_cards |-> 0, red_cards |-> 0],
    [player_name |-> <<"M","a","x">>,
     full_name |-> <<"M","a","x","i","m"," ","O","d","e">>,
     team |-> "Arsenal", position |-> "MID", goals |-> 1, assists |-> 1,
     minutes |-> 90, price |-> 50, yellow_cards |-> 0, red_cards |-> 0],
    [player_name |-> <<"O","d","e">>,
     full_name |-> <<"M","a","x"," ","O","d","e">>,
     team |-> "Chelsea", position |-> "MID", goals |-> 1, assists |-> 1,
     minutes |-> 90, price |-> 50, yellow_cards |-> 0, red_cards |-> 0] }

\* xG player records; xg, xa, shots and key_passes tell the records apart.
EnrichXgRows ==
  { [player_name |-> <<"M","a","x"," ","O","d","e">>,
     team |-> << [pad_l |-> 0, name |-> "Arsenal", pad_r |-> 0] >>,
     position |-> "M", goals |-> 1, assists |-> 1, minutes |-> 90, xg |-> 11,
     xa |-> 11, shots |-> 11, key_passes |-> 11, npxg |-> 11],
    [player_name |-> <<"O","d","e">>,
     team |-> << [pad_l |-> 0, name |-> "Arsenal", pad_r |-> 0] >>,
     position |-> "M", goals |-> 1, assists |-> 1, minutes |-> 90, xg |-> 12,
     xa |-> 12, shots |-> 12, key_passes |-> 12, npxg |-> 12],
    [player_name |-> <<"K","i","t"," ","O","d","e">>,
     team |-> << [pad_l |-> 0, name |-> "Arsenal", pad_r |-> 0] >>,
     position |-> "M", goals |-> 1, assists |-> 1, minutes |-> 90, xg |-> 13,
     xa |-> 13, shots |-> 13, key_passes |-> 13, npxg |-> 13],
    [player_name |-> <<"M","a","x"," ","O","d","e">>,
     team |-> << [pad_l |-> 0, name |-> "Chelsea", pad_r |-> 0] >>,
     position |-> "M", goals |-> 1, assists |-> 1, minutes |-> 90, xg |-> 14,
     xa |-> 14, shots |-> 14, key_passes |-> 14, npxg |-> 14],
    [player_name |-> <<"A","l"," ","O","d","e">>,
     team |-> << [pad_l |-> 0, name |-> "Chelsea", pad_r |-> 0], [pad_l |-> 1, name |-> "Arsenal", pad_r |-> 0] >>,
     position |-> "M", goals |-> 1, assists |-> 1, minutes |-> 90, xg |-> 15,
     xa |-> 15, shots |-> 15, key_passes |-> 15, npxg |-> 15],
    [player_name |-> <<"A","m",".","O","d","e">>,
     team |-> << [pad_l |-> 0, name |-> "Arsenal", pad_r |-> 0] >>,
     position |-> "M", goals |-> 1, assists |-> 1, minutes |-> 90, xg |-> 16,
     xa |-> 16, shots |-> 16, key_passes |-> 16, npxg |-> 16],
    [player_name |-> <<"M",".","o","d","e">>,
     team |-> << [pad_l |-> 0, name |-> "Arsenal", pad_r |-> 0] >>,
     position |-> "M", goals |-> 1, assists |-> 1, minutes |-> 90, xg |-> 17,
     xa |-> 17, shots |-> 17, key_passes |-> 17, npxg |-> 17] }

EnrichInit ==
  /\ matches_file = Present(<< MatchRow(CURRENT_SEASON,
                                        [home_team |-> "Arsenal", away_team |-> "Chelsea",
                                         date |-> 20250823, referee |-> "A Taylor"],
                                        CHOOSE o \in Outcomes : o.result = "H") >>)
  /\ players_file \in {Present(<< p >>) : p \in EnrichFplRows}
  /\ xg_teams_file = Present(XgTeams)
  /\ xg_players_file \in {Present(rows) : rows \in SeqsUpTo(EnrichXgRows, MaxXgRecords)}
  /\ clock = 0
  /\ pc = "idle"
  /\ runs = 0
  /\ exit_code = -1
  /\ output = JNone
  /\ money_vs_points = JNone
  /\ output_file = NoFile
  /\ prev_output_file = NoFile

EnrichSpec == EnrichInit /\ [][Next]_vars

(***************************************************************************)
(* The regression block on given money_rows                                *)
(***************************************************************************)
MaxSquads == 3

\* money_rows as lines 644-654 leave them: one row per team, squad values in
\* tenths, points of a table row.
RegressionRow(team, value, pts) ==
  [team |-> JStr(team),
   squad_value |-> safe_float(Q(value, 10), 1),
   points |-> JInt(pts),
   played |-> JInt(FULL_SEASON_MATCHES),
   points_per_match |-> safe_float(Q(pts, FULL_SEASON_MATCHES), 2)]

\* Squads of 10.0, 20.0 and 30.0 with points on a line, and squads of 250.3,
\* a value that is no binary fraction.
RegressionPairs ==
  {<< 100, 40 >>, << 200, 50 >>, << 300, 60 >>, << 2503, 40 >>, << 2503, 45 >>}

RegressionInputs ==
  {[i \in 1..Len(vp) |-> RegressionRow(TeamOrder[i], vp[i][1], vp[i][2])] :
     vp \in SeqsUpTo(RegressionPairs, MaxSquads) \ {<< >>}}

RegressionInit ==
  /\ matches_file = Present(<< >>)
  /\ players_file = Present(<< >>)
  /\ xg_teams_file = Absent
  /\ xg_players_file = Absent
  /\ clock = 0
  /\ pc = "money_rows"
  /\ runs = 0
  /\ exit_code = -1
  /\ output = JNone
  /\ money_vs_points = JNone
  /\ output_file = NoFile
  /\ prev_output_file = NoFile

\* Lines 656-688 of main(), from a non-empty money_rows to money_vs_points.
Regress ==
  /\ pc = "money_rows"
  /\ \E money_rows \in RegressionInputs :
       money_vs_points' = money_vs_points_fit(money_rows)
  /\ pc' = "fitted"
  /\ UNCHANGED <<matches_file, players_file, xg_teams_file, xg_players_file,
                 clock, runs, exit_code, output, output_file, prev_output_file>>

RegressionSpec == RegressionInit /\ [][Regress]_vars

(***************************************************************************)
(* Runs on three-match files with the fantasy players of some teams        *)
(***************************************************************************)
\* Arsenal v Chelsea, Chelsea v Liverpool and Liverpool v Arsenal of the
\* current season, with every outcome of each.
MoneyMatchSeqs ==
  {<< MatchRow(CURRENT_SEASON, f1, o[1]), MatchRow(CURRENT_SEASON, f2, o[2]),
      MatchRow(CURRENT_SEASON, f3, o[3]) >> :
     f1 \in {f \in Fixtures : f.home_team = "Arsenal"},
     f2 \in {f \in Fixtures : f.home_team = "Chelsea" /\ f.away_team = "Liverpool"},
     f3 \in {f \in Fixtures : f.home_team = "Liverpool"},
     o \in [1..3 -> Outcomes]}

\* players.csv with the players of all four teams, without Arsenal's, with
\* Chelsea's and Everton's, and with Everton's (who play no match).
MoneyPlayerFiles ==
  {Present(SelectSeq(FplPlayers, LAMBDA r : r.team \in ts)) :
     ts \in {{"Arsenal", "Chelsea", "Liverpool", "Everton"},
             {"Chelsea", "Liverpool", "Everton"},
             {"Chelsea", "Everton"},
             {"Everton"}}}

MoneyInit ==
  /\ matches_file \in {Present(rows) : rows \in MoneyMatchSeqs}
  /\ players_file \in MoneyPlayerFiles
  /\ xg_teams_file = Absent
  /\ xg_players_file = Absent
  /\ clock = 0
  /\ pc = "idle"
  /\ runs = 0
  /\ exit_code = -1
  /\ output = JNone
  /\ money_vs_points = JNone
  /\ output_file = NoFile
  /\ prev_output_file = NoFile

MoneySpec == MoneyInit /\ [][Next]_vars

(***************************************************************************)
(* Runs on players.csv files of one player, of a few and of many           *)
(***************************************************************************)
MaxPlayers == 3

Digit(k) == <<"0", "1", "2", "3", "4", "5", "6", "7", "8", "9">>[k + 1]

\* The i-th row of a players.csv: a player of a team with goals, assists and
\* minutes.
LeaderRow(i, team, goals, assists, minutes) ==
  [player_name |-> <<"P", Digit(i \div 10), Digit(i % 10)>>,
   full_name |-> <<"P", Digit(i \div 10), Digit(i % 10)>>,
   team |-> team, position |-> "MID", goals |-> goals, assists |-> assists,
   minutes |-> minutes, price |-> 50, yellow_cards |-> 0, red_cards |-> 0]

\* One player: below and from 90 minutes, with rates that need no rounding
\* (3 in 270), that are rounded (2 in 270) and that lie halfway between two
\* values of 2 decimals (1 in 400, 3 in 400, 1 in 2000).
OnePlayerFiles ==
  {<< LeaderRow(1, "Arsenal", goals, assists, minutes) >> :
     goals \in 0..3, assists \in 0..1, minutes \in {0, 89, 90, 270, 400, 2000}}

\* Up to MaxPlayers players of two teams, with equal goals and equal minutes
\* among them.
FewPlayers ==
  {<< "Arsenal", 2, 0, 180 >>, << "Arsenal", 2, 1, 400 >>,
   << "Chelsea", 1, 1, 400 >>, << "Chelsea", 3, 0, 90 >>}

FewPlayerFiles ==
  {[i \in 1..Len(ps) |-> LeaderRow(i, ps[i][1], ps[i][2], ps[i][3], ps[i][4])] :
     ps \in SeqsUpTo(FewPlayers, MaxPlayers)}

\* Two players more than the goal scorers list holds, of four teams, each
\* with a number of goals of their own (one of them may have none), in four
\* orders; DataFrame.sort_values orders equal values of more than 16 rows as
\* the build of numpy has it, so these files have no equal goals, and few
\* players with assists and none with 450 minutes.
ManyPlayerFiles ==
  {[i \in 1..(GOAL_SCORERS_N + 2) |->
      LeaderRow(i, TeamOrder[(i % 4) + 1], (7 * i + k) % (GOAL_SCORERS_N + 3),
                IF i <= 2 THEN 1 ELSE 0, 90 * ((i + k) % 5))] : k \in 0..3}

LeaderInit ==
  /\ matches_file = Present(<< MatchRow(CURRENT_SEASON,
                                        [home_team |-> "Arsenal", away_team |-> "Chelsea",
                                         date |-> 20250823, referee |-> "A Taylor"],
                                        CHOOSE o \in Outcomes : o.result = "H") >>)
  /\ players_file \in {Present(rows) :
                          rows \in OnePlayerFiles \cup FewPlayerFiles \cup ManyPlayerFiles}
  /\ xg_teams_file = Absent
  /\ xg_players_file = Absent
  /\ clock = 0
  /\ pc = "idle"
  /\ runs = 0
  /\ exit_code = -1
  /\ output = JNone
  /\ money_vs_points = JNone
  /\ output_file = NoFile
  /\ prev_output_file = NoFile

LeaderSpec == LeaderInit /\ [][Next]_vars

(***************************************************************************)
(* The run on one fantasy player and an xG record of a traded player      *)
(***************************************************************************)
\* The xG record that lists two teams, the second after a blank.
TradedRecord == CHOOSE xr \in EnrichXgRows : Len(xr.team) > 1

\* Fantasy rows of that player: with the record's name as short name, with
\* its last name, and with a piece of it, for a team of the record or another.
TradedFplRows ==
  {[player_name |-> names[1], full_name |-> names[2], team |-> team, position |-> "MID",
    goals |-> 1, assists |-> 1, minutes |-> 90, price |-> 50,
    yellow_cards |-> 0, red_cards |-> 0] :
     names \in {<< <<"A","l"," ","O","d","e">>, <<"A","l"," ","O","d","e">> >>,
                << <<"O","d","e">>, <<"A","l","a","n"," ","O","d","e">> >>,
                << <<"A","l"," ","O">>, <<"A","l","a","n"," ","O","d","e">> >>},
     team \in {"Arsenal", "Chelsea", "Liverpool"}}

TradedInit ==
  /\ matches_file = Present(<< MatchRow(CURRENT_SEASON,
                                        [home_team |-> "Arsenal", away_team |-> "Chelsea",
                                         date |-> 20250823, referee |-> "A Taylor"],
                                        CHOOSE o \in Outcomes : o.result = "H") >>)
  /\ players_file \in {Present(<< p >>) : p \in TradedFplRows}
  /\ xg_teams_file = Present(XgTeams)
  /\ xg_players_file \in
       {Present(rows) :
          rows \in {s \in SeqsUpTo(EnrichXgRows, MaxXgRecords) :
                      \E k \in 1..Len(s) : s[k] = TradedRecord}}
  /\ clock = 0
  /\ pc = "idle"
  /\ runs = 0
  /\ exit_code = -1
  /\ output = JNone
  /\ money_vs_points = JNone
  /\ output_file = NoFile
  /\ prev_output_file = NoFile

TradedSpec == TradedInit /\ [][Next]_vars

(***************************************************************************)
(* Reading the written document                                            *)
(***************************************************************************)
\* A run has ended and data/output/dashboard_data.json holds its document.
Written == pc = "idle" /\ exit_code = 0 /\ output_file.kind = "dict"

\* The rows (dict items) of a list section of the written document.
LeagueTable ==
  [i \in 1..Len(output_file.items.league_table.elems) |->
     output_file.items.league_table.elems[i].items]

CumulativePoints == output_file.items.cumulative_points.items

ShotQuality ==
  [i \in 1..Len(output_file.items.shot_quality.elems) |->
     output_file.items.shot_quality.elems[i].items]

\* The value of a finite float node as a numerator over 10^dp.
IsZero(f) == f.kind = "float" /\ f.cls = "fin" /\ f.num = 0

(***************************************************************************)
(* Properties                                                              *)
(***************************************************************************)
\* C1: in every league-table row of the written document, points equals
\* three times the wins plus the draws, and goal_difference equals goals_for
\* minus goals_against.
C1_PointsAndGoalDifference ==
  Written =>
    \A i \in 1..Len(LeagueTable) :
      LET r == LeagueTable[i]
      IN  /\ r.points.n = 3 * r.won.n + r.drawn.n
          /\ r.goal_difference.n = r.goals_for.n - r.goals_against.n

\* A written table has a team with a win, a draw and a non-zero goal
\* difference.
C1_Witness ==
  /\ Written
  /\ \E i \in 1..Len(LeagueTable) :
       /\ LeagueTable[i].won.n >= 1
       /\ LeagueTable[i].drawn.n >= 1
       /\ LeagueTable[i].goal_difference.n # 0

\* C2: the league table is ordered by points descending, ties by goal
\* difference descending, remaining ties by goals scored descending: of two
\* rows the earlier one never has the smaller (points, goal_difference,
\* goals_for); positions number the rows 1, 2, ...
C2_TableOrdering ==
  Written =>
    /\ \A i, j \in 1..Len(LeagueTable) :
         i < j =>
           LET a == LeagueTable[i]
               b == LeagueTable[j]
           IN  \/ a.points.n > b.points.n
               \/ /\ a.points.n = b.points.n
                  /\ a.goal_difference.n > b.goal_difference.n
               \/ /\ a.points.n = b.points.n
                  /\ a.goal_difference.n = b.goal_difference.n
                  /\ a.goals_for.n >= b.goals_for.n
    /\ \A i \in 1..Len(LeagueTable) : LeagueTable[i].position.n = i

\* A written table where two teams level on points are separated by goal
\* difference, against the alphabetical order the rows were built in.
C2_Witness ==
  /\ Written
  /\ \E i, j \in 1..Len(LeagueTable) :
       /\ i < j
       /\ LeagueTable[i].points.n = LeagueTable[j].points.n
       /\ LeagueTable[i].goal_difference.n > LeagueTable[j].goal_difference.n
       /\ TeamRank(LeagueTable[i].team.s) > TeamRank(LeagueTable[j].team.s)

\* C3: every team's cumulative-points series never decreases from one
\* matchday to the next, and its last value is the team's points in the
\* league table.
C3_CumulativePoints ==
  Written =>
    /\ DOMAIN CumulativePoints = {LeagueTable[i].team.s : i \in 1..Len(LeagueTable)}
    /\ \A i \in 1..Len(LeagueTable) :
         LET series == CumulativePoints[LeagueTable[i].team.s].elems
         IN  /\ Len(series) = LeagueTable[i].played.n
             /\ Len(series) >= 1
             /\ \A k \in 1..Len(series) : series[k].items.matchday.n = k
             /\ \A k \in 1..(Len(series) - 1) :
                  series[k].items.points.n <= series[k + 1].items.points.n
             /\ series[Len(series)].items.points.n = LeagueTable[i].points.n

\* A team with an away win whose series rises after its first matchday.
C3_Witness ==
  /\ Written
  /\ \E i \in 1..Len(LeagueTable) :
       LET series == CumulativePoints[LeagueTable[i].team.s].elems
       IN  /\ LeagueTable[i].away_won.n >= 1
           /\ Len(series) >= 2
           /\ series[1].items.points.n < series[Len(series)].items.points.n

Min(a, b) == IF a <= b THEN a ELSE b

\* C4: when matches_clean.csv is missing or holds no match rows, the run
\* ends with a failure and no output document is written.
C4_RefusesMissingOrEmpty ==
  (pc = "idle" /\ runs >= 1 /\ (~matches_file.exists \/ matches_file.rows = << >>))
    => (exit_code = 1 /\ output_file = NoFile)

\* C5: with an empty fantasy player dataset (no players.csv, or one without
\* player rows), player_leaderboards and money_vs_points are both null in the
\* written document.
C5_EmptyFantasyUnavailable ==
  (Written /\ players_file.rows = << >>)
    => /\ output_file.items.player_leaderboards = JNone
       /\ output_file.items.money_vs_points = JNone

\* C6: without expected-goals data (either xG file missing) and with fantasy
\* data, xg_table, xg_vs_actual, shot_quality and top_scorers are null, the
\* leaderboards hold the fantasy scorers and assisters, and xg, shots, xa and
\* key_passes are null on every one of their rows.
C6_XgAbsent ==
  (Written /\ players_file.exists
     /\ ~(xg_teams_file.exists /\ xg_players_file.exists))
    => LET d == output_file.items
           fpl == players_file.rows
       IN  /\ d.xg_table = JNone
           /\ d.xg_vs_actual = JNone
           /\ d.shot_quality = JNone
           /\ d.top_scorers = JNone
           /\ d.player_leaderboards.kind = "dict"
           /\ LET gs == d.player_leaderboards.items.goal_scorers.elems
                  al == d.player_leaderboards.items.assist_leaders.elems
              IN  /\ Len(gs) = Min(Len(SelectSeq(fpl, LAMBDA r : r.goals > 0)),
                                   GOAL_SCORERS_N)
                  /\ Len(al) = Min(Len(SelectSeq(fpl, LAMBDA r : r.assists > 0)),
                                   ASSIST_LEADERS_N)
                  /\ \A i \in 1..Len(gs) :
                       gs[i].items.xg = JNone /\ gs[i].items.shots = JNone
                  /\ \A i \in 1..Len(al) :
                       al[i].items.xa = JNone /\ al[i].items.key_passes = JNone

\* A document written from fantasy players and xg_players.csv, without
\* xg_teams.csv: the player records that would enrich the rows are on disk.
C6_Witness ==
  /\ Written
  /\ players_file.exists
  /\ xg_players_file.exists
  /\ ~xg_teams_file.exists
  /\ Len(output_file.items.player_leaderboards.items.goal_scorers.elems) >= 2
  /\ Len(output_file.items.player_leaderboards.items.assist_leaders.elems) >= 2

\* A second run over the same files has ended, both runs wrote a document.
Rerun == pc = "idle" /\ runs >= 2 /\ exit_code = 0

C8_ZeroExactlyWhenNoShots ==
  Written =>
    \A i \in 1..Len(LeagueTable) :
      IsZero(LeagueTable[i].shot_accuracy) <=> LeagueTable[i].total_shots.n = 0

\* C8 (amended): shot_accuracy is 0 when total shots is 0 and also when the
\* team has shots but none on target; it is not 0 when the team has shots
\* and at least one in 10,000 of them is on target.  With shots, it is within
\* half a hundredth of shots on target / shots * 100.
C8_ShotAccuracy ==
  Written =>
    \A i \in 1..Len(LeagueTable) :
      LET shots == LeagueTable[i].total_shots.n
          sot == LeagueTable[i].total_shots_on_target.n
          acc == LeagueTable[i].shot_accuracy
      IN  /\ acc.kind = "float" /\ acc.cls = "fin"
          /\ (shots = 0 \/ sot = 0) => IsZero(acc)
          /\ (shots > 0 /\ sot > 0 /\ shots <= 10000 * sot) => ~IsZero(acc)
          /\ shots > 0 => 2 * Abs(Scaled(acc, 2) * shots - sot * 10000) <= shots

\* A table with a team that has shots but none on target, and a team with a
\* shot on target.
C8_Witness ==
  /\ Written
  /\ \E i \in 1..Len(LeagueTable) :
       /\ LeagueTable[i].total_shots.n > 0
       /\ LeagueTable[i].total_shots_on_target.n = 0
  /\ \E i \in 1..Len(LeagueTable) :
       /\ LeagueTable[i].total_shots_on_target.n > 0
       /\ LeagueTable[i].total_shots_on_target.n < LeagueTable[i].total_shots.n

\* The total shots of a team's league-table row, 0 without a row.
TableShots(team) ==
  LET k == find_team_row(LeagueTable, team)
  IN  IF k = 0 THEN 0 ELSE LeagueTable[k].total_shots.n

RECURSIVE AllFinite(_)
AllFinite(node) ==
  IF node.kind = "dict" THEN \A k \in DOMAIN node.items : AllFinite(node.items[k])
  ELSE IF node.kind = "list"
  THEN \A i \in 1..Len(node.elems) : AllFinite(node.elems[i])
  ELSE IF node.kind = "float" THEN node.cls = "fin"
  ELSE TRUE

\* after is before with 0 in the place of every NaN, +Infinity and -Infinity
\* and nothing else changed.
RECURSIVE Scrubbed(_, _)
Scrubbed(before, after) ==
  IF before.kind = "dict"
  THEN /\ after.kind = "dict"
       /\ DOMAIN after.items = DOMAIN before.items
       /\ \A k \in DOMAIN before.items : Scrubbed(before.items[k], after.items[k])
  ELSE IF before.kind = "list"
  THEN /\ after.kind = "list"
       /\ Len(after.elems) = Len(before.elems)
       /\ \A i \in 1..Len(before.elems) : Scrubbed(before.elems[i], after.elems[i])
  ELSE IF before.kind = "float" /\ before.cls # "fin"
  THEN after.kind = "float" /\ after.cls = "fin" /\ after.num = 0
  ELSE after = before

\* C10: the written document holds no NaN, +Infinity or -Infinity at any
\* depth of its dicts and lists; it is the assembled document with each of
\* them replaced by 0 and every other value unchanged.
C10_SanitizedDocument ==
  (pc = "idle" /\ exit_code = 0) =>
    /\ AllFinite(output_file)
    /\ Scrubbed(output, output_file)

\* A written document whose assembled form had -Infinity in a list of a list
\* of a dict of the document, NaN in a dict of a list and +Infinity at the
\* top.
C10_Witness ==
  /\ pc = "idle"
  /\ exit_code = 0
  /\ "nested" \in DOMAIN output.items
  /\ output.items.nested.items.inner.elems[1].elems[1] = JNonFinite("-inf")
  /\ Len(output.items.section.elems) = MaxElems
  /\ output.items.section.elems[MaxElems].items.value = JNonFinite("nan")
  /\ output.items.total = JNonFinite("inf")
  /\ output_file.items.section.elems[1].items.value = JFloat(25, 1)

\* The current-season rows of matches_clean.csv.
CurrentRows == SelectSeq(matches_file.rows, LAMBDA r : r.season = CURRENT_SEASON)

\* The number of current-season matches a referee officiated.
Officiated(ref) == Len(SelectSeq(CurrentRows, LAMBDA r : r.referee = ref))

RefereeStats ==
  [i \in 1..Len(output_file.items.referee_stats.elems) |->
     output_file.items.referee_stats.elems[i].items]

\* C11: every row of referee_stats is for a referee with at least 3
\* current-season matches and carries that number; every referee with at
\* least 3 current-season matches has exactly one row.
C11_RefereeThreshold ==
  Written =>
    /\ \A i \in 1..Len(RefereeStats) :
         /\ Officiated(RefereeStats[i].referee.s) >= 3
         /\ RefereeStats[i].matches.n = Officiated(RefereeStats[i].referee.s)
    /\ \A r \in 1..Len(CurrentRows) :
         Officiated(CurrentRows[r].referee) >= 3 =>
           Cardinality({i \in 1..Len(RefereeStats) :
                          RefereeStats[i].referee.s = CurrentRows[r].referee}) = 1

\* A written document lists a referee with three current-season matches.
C11_Witness ==
  /\ Written
  /\ Len(RefereeStats) >= 1
  /\ \E r \in 1..Len(CurrentRows) : Officiated(CurrentRows[r].referee) >= 3

(***************************************************************************)
(* Matching fantasy players to xG records                                  *)
(***************************************************************************)
Leaderboards == output_file.items.player_leaderboards.items

GoalScorers ==
  [i \in 1..Len(Leaderboards.goal_scorers.elems) |-> Leaderboards.goal_scorers.elems[i].items]

AssistLeaders ==
  [i \in 1..Len(Leaderboards.assist_leaders.elems) |-> Leaderboards.assist_leaders.elems[i].items]

\* A run that wrote leaderboards with both xG files read.
Enriching ==
  /\ Written
  /\ xg_teams_file.exists /\ xg_players_file.exists
  /\ output_file.items.player_leaderboards.kind = "dict"

XgRecords == xg_players_file.rows

Normalized(name) == lower(strip_accents(name))

\* The xG records that list the team among their teams.
Under(team) ==
  {k \in 1..Len(XgRecords) :
     \E j \in 1..Len(XgRecords[k].team) : XgRecords[k].team[j].name = team}

\* The xG records of the team whose normalized name ends with the word.
WithLastName(word, team) ==
  {k \in Under(team) :
     LET words == split_ws(Normalized(XgRecords[k].player_name))
     IN  words # <<>> /\ words[Len(words)] = word}

WithName(name, team) == {k \in Under(team) : XgRecords[k].player_name = name}

\* The fantasy rows a leaderboard row was made from.
FantasyRowsOf(lrow) ==
  {p \in {players_file.rows[n] : n \in 1..Len(players_file.rows)} :
     p.player_name = lrow.player_name.s /\ p.team = lrow.team.s}

\* The goal-scorer row carries the xg and shots of record k.
ScorerHas(lrow, k) ==
  /\ lrow.xg = xg_data_of(XgRecords[k]).xg
  /\ lrow.shots = xg_data_of(XgRecords[k]).shots

\* The assist-leader row carries the xa and key_passes of record k.
AssisterHas(lrow, k) ==
  /\ lrow.xa = xg_data_of(XgRecords[k]).xa
  /\ lrow.key_passes = xg_data_of(XgRecords[k]).key_passes

\* The row's short name is the last name of a record of its team while
\* neither its short name nor its full name is the name of one.
LastNameOnly(p) ==
  /\ WithName(p.player_name, p.team) = {}
  /\ WithName(p.full_name, p.team) = {}
  /\ WithLastName(Normalized(p.player_name), p.team) # {}

\* C12: a fantasy player whose short name, accent-stripped and lower-cased,
\* is the last word of the normalized name of an xG record of the same team,
\* while neither the short nor the full name is the exact name of one, gets
\* the figures of an xG record with that last name.
C12_LastNameFallback ==
  Enriching =>
    /\ \A i \in 1..Len(GoalScorers) : \A p \in FantasyRowsOf(GoalScorers[i]) :
         LastNameOnly(p) =>
           \E k \in WithLastName(Normalized(p.player_name), p.team) :
              ScorerHas(GoalScorers[i], k)
    /\ \A i \in 1..Len(AssistLeaders) : \A p \in FantasyRowsOf(AssistLeaders[i]) :
         LastNameOnly(p) =>
           \E k \in WithLastName(Normalized(p.player_name), p.team) :
              AssisterHas(AssistLeaders[i], k)

\* A short name with a diacritic found by its last name.
C12_Witness ==
  /\ Enriching
  /\ \E i \in 1..Len(GoalScorers) : \E p \in FantasyRowsOf(GoalScorers[i]) :
       /\ LastNameOnly(p)
       /\ Normalized(p.player_name) # p.player_name
       /\ GoalScorers[i].xg # JNone

\* C13: the figures on a leaderboard row are those of an xG record that
\* lists the row's team, and a row whose team no record lists has none.
C13_TeamScoped ==
  Enriching =>
    /\ \A i \in 1..Len(GoalScorers) : \A p \in FantasyRowsOf(GoalScorers[i]) :
         IF Under(p.team) = {}
         THEN GoalScorers[i].xg = JNone /\ GoalScorers[i].shots = JNone
         ELSE \/ GoalScorers[i].xg = JNone /\ GoalScorers[i].shots = JNone
              \/ \E k \in Under(p.team) : ScorerHas(GoalScorers[i], k)
    /\ \A i \in 1..Len(AssistLeaders) : \A p \in FantasyRowsOf(AssistLeaders[i]) :
         IF Under(p.team) = {}
         THEN AssistLeaders[i].xa = JNone /\ AssistLeaders[i].key_passes = JNone
         ELSE \/ AssistLeaders[i].xa = JNone /\ AssistLeaders[i].key_passes = JNone
              \/ \E k \in Under(p.team) : AssisterHas(AssistLeaders[i], k)

\* A record with the player's exact name exists, under another team only.
C13_Witness ==
  /\ Enriching
  /\ \E i \in 1..Len(GoalScorers) : \E p \in FantasyRowsOf(GoalScorers[i]) :
       /\ Under(p.team) = {}
       /\ \E k \in 1..Len(XgRecords) : XgRecords[k].player_name = p.full_name
       /\ GoalScorers[i].xg = JNone

\* The records each strategy finds for a fantasy row, in the order 1..5.
DotParts(p) ==
  LET pieces == split_on(p.player_name, ".")
  IN  IF Len(pieces) > 1
      THEN {Normalized(pieces[n]) : n \in {m \in 1..Len(pieces) : Len(pieces[m]) > 2}}
      ELSE {}

StrategyHits(p) ==
  << WithName(p.player_name, p.team),
     IF p.full_name # <<>> THEN WithName(p.full_name, p.team) ELSE {},
     WithLastName(Normalized(p.player_name), p.team),
     UNION {WithLastName(part, p.team) : part \in DotParts(p)},
     {k \in Under(p.team) :
        is_substring(rstrip_dot(Normalized(p.player_name)),
                     Normalized(XgRecords[k].player_name))} >>

\* The first strategy that finds a record, 0 when none does.
FirstStrategy(p) ==
  IF \A s \in 1..5 : StrategyHits(p)[s] = {} THEN 0
  ELSE CHOOSE s \in 1..5 :
         StrategyHits(p)[s] # {} /\ \A t \in 1..(s - 1) : StrategyHits(p)[t] = {}

\* C14: the figures on a leaderboard row are those of a record found by the
\* first of the five strategies (exact short name, exact full name, last
\* name, dot-separated parts as last names, substring) that finds one; the
\* row has none when no strategy finds a record.
C14_StrategyOrder ==
  Enriching =>
    /\ \A i \in 1..Len(GoalScorers) : \A p \in FantasyRowsOf(GoalScorers[i]) :
         IF FirstStrategy(p) = 0
         THEN GoalScorers[i].xg = JNone /\ GoalScorers[i].shots = JNone
         ELSE \E k \in StrategyHits(p)[FirstStrategy(p)] : ScorerHas(GoalScorers[i], k)
    /\ \A i \in 1..Len(AssistLeaders) : \A p \in FantasyRowsOf(AssistLeaders[i]) :
         IF FirstStrategy(p) = 0
         THEN AssistLeaders[i].xa = JNone /\ AssistLeaders[i].key_passes = JNone
         ELSE \E k \in StrategyHits(p)[FirstStrategy(p)] : AssisterHas(AssistLeaders[i], k)

\* Two strategies find different records and the earlier one decided.
C14_Witness ==
  /\ Enriching
  /\ \E i \in 1..Len(GoalScorers) : \E p \in FantasyRowsOf(GoalScorers[i]) :
       /\ FirstStrategy(p) \in 1..4
       /\ \E t \in (FirstStrategy(p) + 1)..5 :
            StrategyHits(p)[t] \cap StrategyHits(p)[FirstStrategy(p)] = {}
            /\ StrategyHits(p)[t] # {}
       /\ GoalScorers[i].xg # JNone

(***************************************************************************)
(* The fitted line                                                         *)
(***************************************************************************)
Fitted == pc = "fitted" /\ money_vs_points.kind = "dict"

MoneyTeams ==
  [i \in 1..Len(money_vs_points.items.teams.elems) |->
     money_vs_points.items.teams.elems[i].items]

Regression == money_vs_points.items.regression.items

\* Squad value of a row in tenths, and its points.
ValueOf(i) == Scaled(MoneyTeams[i].squad_value, 1)
PointsOf(i) == MoneyTeams[i].points.n

\* The (value, points) pairs lie on one line of positive slope and the values
\* are not all equal.
OnRisingLine ==
  /\ \E i, j \in 1..Len(MoneyTeams) : ValueOf(i) < ValueOf(j)
  /\ \A i, j \in 1..Len(MoneyTeams) : ValueOf(i) < ValueOf(j) => PointsOf(i) < PointsOf(j)
  /\ \A i, j \in 1..Len(MoneyTeams) : ValueOf(i) = ValueOf(j) => PointsOf(i) = PointsOf(j)
  /\ \A i, j, k \in 1..Len(MoneyTeams) :
       (PointsOf(j) - PointsOf(i)) * (ValueOf(k) - ValueOf(i))
         = (PointsOf(k) - PointsOf(i)) * (ValueOf(j) - ValueOf(i))

\* C15: when points are an exact increasing affine function of squad value
\* and the values vary, the reported slope and intercept are those of that
\* line and r_squared is 1; values 10, 20, 30 with points 40, 50, 60 give
\* slope 1.0, intercept 30.0, r_squared 1.0.
C15_ExactLine ==
  Fitted /\ OnRisingLine =>
    /\ \A i, j \in 1..Len(MoneyTeams) :
         ValueOf(i) < ValueOf(j) =>
           /\ Regression.slope =
                safe_float(Q(10 * (PointsOf(j) - PointsOf(i)), ValueOf(j) - ValueOf(i)), 4)
           /\ Regression.intercept =
                safe_float(Q(PointsOf(i) * (ValueOf(j) - ValueOf(i))
                               - (PointsOf(j) - PointsOf(i)) * ValueOf(i),
                             ValueOf(j) - ValueOf(i)), 2)
    /\ Regression.r_squared = JFloat(1000, 3)
    /\ {<< ValueOf(i), PointsOf(i) >> : i \in 1..Len(MoneyTeams)}
         = {<< 100, 40 >>, << 200, 50 >>, << 300, 60 >>}
       => /\ Regression.slope = JFloat(10000, 4)
          /\ Regression.intercept = JFloat(3000, 2)

\* The three squads of the example, fitted.
C15_Witness ==
  /\ Fitted
  /\ Len(MoneyTeams) = 3
  /\ {<< ValueOf(i), PointsOf(i) >> : i \in 1..Len(MoneyTeams)}
       = {<< 100, 40 >>, << 200, 50 >>, << 300, 60 >>}
  /\ Regression.slope = JFloat(10000, 4)
  /\ Regression.r_squared = JFloat(1000, 3)

(***************************************************************************)
(* The fit of squads of equal value                                        *)
(***************************************************************************)
EqualValues == \A i, j \in 1..Len(MoneyTeams) : ValueOf(i) = ValueOf(j)
EqualPoints == \A i, j \in 1..Len(MoneyTeams) : PointsOf(i) = PointsOf(j)

\* mean(points), as a float of 2 decimals
MeanPoints ==
  safe_float(Q(SeqSum([i \in 1..Len(MoneyTeams) |-> PointsOf(i)]), Len(MoneyTeams)), 2)

\* The slope is 0 and the intercept mean(points) when the squad values have
\* variance 0.
ZeroVarianceLine ==
  Fitted /\ EqualValues =>
    /\ Regression.slope = JFloat(0, 4)
    /\ Regression.intercept = MeanPoints

\* r_squared is 0 when the squad values or the points have variance 0.
ZeroVarianceRSquared ==
  Fitted /\ (EqualValues \/ EqualPoints) => Regression.r_squared = JFloat(0, 3)

\* C21: when the variance of squad value across the regressed teams is 0 (one
\* team, or all teams of equal squad value) the reported slope is 0 and the
\* intercept is mean(points); r_squared is 0 whenever the variance of squad
\* value or the variance of points is 0.
C21_ZeroVariance == ZeroVarianceLine /\ ZeroVarianceRSquared

\* One team, and two teams of equal value: the guard of line 664 is taken.
ZeroVarianceGuarded ==
  /\ Fitted
  /\ Len(MoneyTeams) = 2
  /\ EqualValues
  /\ ~EqualPoints
  /\ Regression.slope = JFloat(0, 4)
  /\ Regression.intercept = MeanPoints

\* Three teams of squad value 250.3 with 40, 40 and 45 points: var is not 0
\* in floats, and the line reported is neither flat nor through the mean.
ZeroVarianceMissed ==
  /\ Fitted
  /\ Len(MoneyTeams) = 3
  /\ \A i \in 1..3 : ValueOf(i) = 2503
  /\ Regression.slope = JFloat(-833, 4)
  /\ Regression.intercept = JFloat(6252, 2)
  /\ MeanPoints = JFloat(4167, 2)

(***************************************************************************)
(* Guarded divisions                                                       *)
(***************************************************************************)
HomeAway == output_file.items.home_away.items

GoalsByPosition ==
  [i \in 1..Len(Leaderboards.goals_by_position.elems) |->
     Leaderboards.goals_by_position.elems[i].items]

WrittenMoney == output_file.items.money_vs_points.items

WrittenMoneyTeams ==
  [i \in 1..Len(WrittenMoney.teams.elems) |-> WrittenMoney.teams.elems[i].items]

HasLeaderboards == output_file.items.player_leaderboards.kind = "dict"
HasMoney == output_file.items.money_vs_points.kind = "dict"

XgSections == {"xg_table", "xg_vs_actual", "top_scorers", "shot_quality"}
FantasySections == {"player_value", "player_leaderboards", "money_vs_points"}

BothXgFiles == xg_teams_file.exists /\ xg_players_file.exists

\* C17: the written document has the seven optional keys whatever files are
\* there; each holds null or a list or dict, the four xG sections are null
\* when an xG file is missing and the three fantasy sections are null when
\* players.csv is missing.
C17_OptionalKeys ==
  Written =>
    /\ XgSections \cup FantasySections \subseteq DOMAIN output_file.items
    /\ \A k \in XgSections \cup FantasySections :
         output_file.items[k] = JNone \/ output_file.items[k].kind \in {"list", "dict"}
    /\ ~BothXgFiles => \A k \in XgSections : output_file.items[k] = JNone
    /\ ~players_file.exists => \A k \in FantasySections : output_file.items[k] = JNone

\* xG files without players.csv: four sections populated, three null.
C17_Witness ==
  /\ Written
  /\ BothXgFiles /\ ~players_file.exists
  /\ \A k \in XgSections : output_file.items[k].kind = "list"
  /\ \A k \in FantasySections : output_file.items[k] = JNone

\* C18: the four xG sections are null together and exactly when an xG file
\* is missing, and then no goal-scorer or assist-leader row has a figure
\* taken from an xG record, whichever xG file is there.
C18_AllOrNothing ==
  Written =>
    /\ \A k \in XgSections : output_file.items[k] = JNone <=> ~BothXgFiles
    /\ HasLeaderboards /\ ~BothXgFiles =>
         /\ \A i \in 1..Len(GoalScorers) :
              GoalScorers[i].xg = JNone /\ GoalScorers[i].shots = JNone
         /\ \A i \in 1..Len(AssistLeaders) :
              AssistLeaders[i].xa = JNone /\ AssistLeaders[i].key_passes = JNone

\* xg_teams.csv alone next to the fantasy players.
C18_Witness ==
  /\ Written
  /\ xg_teams_file.exists /\ ~xg_players_file.exists
  /\ HasLeaderboards /\ Len(GoalScorers) > 0
  /\ output_file.items.xg_table = JNone
  /\ \A i \in 1..Len(GoalScorers) : GoalScorers[i].xg = JNone

(***************************************************************************)
(* Table positions                                                         *)
(***************************************************************************)
\* The teams of the current-season matches, home or away.
TeamsPlaying ==
  {CurrentRows[r].home_team : r \in 1..Len(CurrentRows)}
    \cup {CurrentRows[r].away_team : r \in 1..Len(CurrentRows)}

\* C19: the league table has one row for each team that plays at home or
\* away in a current-season match and no other row, and the positions are
\* 1..N in list order, N being the number of those teams.
C19_Positions ==
  Written =>
    /\ Len(LeagueTable) = Cardinality(TeamsPlaying)
    /\ \A t \in TeamsPlaying :
         Cardinality({i \in 1..Len(LeagueTable) : LeagueTable[i].team.s = t}) = 1
    /\ [i \in 1..Len(LeagueTable) |-> LeagueTable[i].position.n]
         = [i \in 1..Cardinality(TeamsPlaying) |-> i]

\* Three teams, one of which has only played away.
C19_Witness ==
  /\ Written
  /\ Cardinality(TeamsPlaying) = 3
  /\ \E t \in TeamsPlaying : \A r \in 1..Len(CurrentRows) : CurrentRows[r].home_team # t
  /\ LeagueTable[3].position.n = 3

(***************************************************************************)
(* Cumulative series, match by match                                       *)
(***************************************************************************)
\* The current-season matches of a team (indexes into CurrentRows).
MatchesOf(t) ==
  {r \in 1..Len(CurrentRows) :
     CurrentRows[r].home_team = t \/ CurrentRows[r].away_team = t}

\* Points the match gives the team: 3 for a win, 1 for a draw, 0 for a loss.
PointsFrom(r, t) ==
  IF CurrentRows[r].result = "D" THEN 1
  ELSE IF CurrentRows[r].home_team = t /\ CurrentRows[r].result = "H" THEN 3
  ELSE IF CurrentRows[r].away_team = t /\ CurrentRows[r].result = "A" THEN 3
  ELSE 0

\* The team's k-th match by date.
IsKthMatch(r, t, k) ==
  /\ r \in MatchesOf(t)
  /\ Cardinality({q \in MatchesOf(t) : CurrentRows[q].date < CurrentRows[r].date}) = k - 1

\* C20: a team's cumulative series has one entry per current-season match
\* of the team, numbered 1..played, and its k-th entry exceeds the one
\* before it (0 before the first) by the 3, 1 or 0 points the team took from
\* its k-th match by date.
C20_CumulativeSteps ==
  Written =>
    \A t \in TeamsPlaying :
      /\ t \in DOMAIN CumulativePoints
      /\ LET series == CumulativePoints[t].elems
         IN  /\ Len(series) = Cardinality(MatchesOf(t))
             /\ \A k \in 1..Len(series) :
                  /\ series[k].items.matchday.n = k
                  /\ \E r \in MatchesOf(t) :
                       /\ IsKthMatch(r, t, k)
                       /\ series[k].items.points.n
                            - (IF k = 1 THEN 0 ELSE series[k - 1].items.points.n)
                          = PointsFrom(r, t)

\* A team whose later match comes first in the file and whose two matches
\* give it different points.
C20_Witness ==
  /\ Written
  /\ \E t \in TeamsPlaying : \E r, q \in MatchesOf(t) :
       /\ r < q
       /\ CurrentRows[q].date < CurrentRows[r].date
       /\ PointsFrom(r, t) # PointsFrom(q, t)
       /\ CumulativePoints[t].elems[1].items.points.n = PointsFrom(q, t)
       /\ Len(CumulativePoints[t].elems) = 2

(***************************************************************************)
(* Money vs points of the written document                                 *)
(***************************************************************************)
\* The teams of players.csv, and the sum of a team's prices (in tenths).
FantasyTeams ==
  IF players_file.exists
  THEN {players_file.rows[i].team : i \in 1..Len(players_file.rows)}
  ELSE {}

PriceSum(t) == SeqSum(Column(SelectSeq(players_file.rows, LAMBDA r : r.team = t), "price"))

TableTeams == {LeagueTable[i].team.s : i \in 1..Len(LeagueTable)}
TableRowOf(t) == LeagueTable[CHOOSE i \in 1..Len(LeagueTable) : LeagueTable[i].team.s = t]

\* The row's expected_points is on the reported line, up to the rounding of
\* the slope (4 places), the intercept and expected_points (2 places): in
\* units of 10^-5, with the squad value in tenths.
OnReportedLine(row) ==
  LET v == Scaled(row.squad_value, 1)
      line == Scaled(WrittenMoney.regression.items.slope, 4) * v
                + 1000 * Scaled(WrittenMoney.regression.items.intercept, 2)
  IN  2 * Abs(1000 * Scaled(row.expected_points, 2) - line) <= 2000 + v

\* C22: money_vs_points lists exactly the teams that have both fantasy players
\* and a league-table row, each with squad_value the sum of its players'
\* prices and over_under = points - expected points of the fitted line, in
\* descending order of over_under; the section is null when no fantasy team
\* has a league-table row.
C22_MoneyVsPoints ==
  Written =>
    IF FantasyTeams \cap TableTeams = {}
    THEN output_file.items.money_vs_points = JNone
    ELSE /\ HasMoney
         /\ Len(WrittenMoneyTeams) = Cardinality(FantasyTeams \cap TableTeams)
         /\ {WrittenMoneyTeams[i].team.s : i \in 1..Len(WrittenMoneyTeams)}
              = FantasyTeams \cap TableTeams
         /\ \A i \in 1..Len(WrittenMoneyTeams) :
              LET row == WrittenMoneyTeams[i] IN
                /\ Scaled(row.squad_value, 1) = PriceSum(row.team.s)
                /\ row.points = TableRowOf(row.team.s).points
                /\ OnReportedLine(row)
                /\ Scaled(row.over_under, 2)
                     = 100 * row.points.n - Scaled(row.expected_points, 2)
         /\ \A i, j \in 1..Len(WrittenMoneyTeams) :
              i < j => Scaled(WrittenMoneyTeams[i].over_under, 2)
                         >= Scaled(WrittenMoneyTeams[j].over_under, 2)

\* Three teams listed, the alphabetically first of them not on top, a team of
\* two players, and a fantasy team without a table row left out.
C22_Witness ==
  /\ Written
  /\ HasMoney
  /\ Len(WrittenMoneyTeams) = 3
  /\ WrittenMoneyTeams[3].team.s = "Arsenal"
  /\ Scaled(WrittenMoneyTeams[1].over_under, 2) > Scaled(WrittenMoneyTeams[2].over_under, 2)
  /\ \E i \in 1..3 : /\ WrittenMoneyTeams[i].team.s = "Chelsea"
                      /\ Scaled(WrittenMoneyTeams[i].squad_value, 1) = 140
  /\ "Everton" \in FantasyTeams \ TableTeams

\* A table row without fantasy players is left out, and a run with no
\* fantasy team in the table writes null.
C22_WitnessNull ==
  /\ Written
  /\ FantasyTeams = {"Everton"}
  /\ Len(LeagueTable) = 3
  /\ output_file.items.money_vs_points = JNone

(***************************************************************************)
(* Per-90 rates of the leaderboards                                        *)
(***************************************************************************)
\* The node is 0 below 90 minutes, and from 90 minutes a float of 2 decimals
\* nearest to stat / minutes * 90 (within half a hundredth of it).
IsPer90(node, stat, minutes) ==
  IF minutes < 90 THEN node = JInt(0)
  ELSE /\ node.kind = "float"
       /\ node.cls = "fin"
       /\ 2 * Abs(Scaled(node, 2) * minutes - 9000 * stat) <= minutes

\* C23: every per-90 statistic of a leaderboard row is 0 when the player's
\* minutes are below 90, whatever the stat, and stat / minutes * 90 rounded to
\* 2 decimals otherwise.
C23_Per90 ==
  Written /\ HasLeaderboards =>
    /\ \A i \in 1..Len(GoalScorers) :
         IsPer90(GoalScorers[i].goals_per_90, GoalScorers[i].goals.n,
                 GoalScorers[i].minutes.n)
    /\ \A i \in 1..Len(AssistLeaders) :
         IsPer90(AssistLeaders[i].assists_per_90, AssistLeaders[i].assists.n,
                 AssistLeaders[i].minutes.n)

\* A scorer of 2 goals in 270 minutes with 0.67 a match, and one assist: 0.33.
C23_Witness ==
  /\ Written
  /\ HasLeaderboards
  /\ Len(GoalScorers) = 1
  /\ GoalScorers[1].goals.n = 2
  /\ GoalScorers[1].minutes.n = 270
  /\ GoalScorers[1].goals_per_90 = JFloat(67, 2)
  /\ Len(AssistLeaders) = 1
  /\ AssistLeaders[1].assists_per_90 = JFloat(33, 2)

\* Below 90 minutes the rate of 3 goals is 0.
Per90BelowNinety ==
  /\ Written
  /\ HasLeaderboards
  /\ Len(GoalScorers) = 1
  /\ GoalScorers[1].goals.n = 3
  /\ GoalScorers[1].minutes.n = 89
  /\ GoalScorers[1].goals_per_90 = JInt(0)

\* Halfway between two values the float decides: 1 goal in 400 minutes is
\* 0.225 and reported as 0.23, 3 goals in 400 minutes are 0.675 and reported
\* as 0.67.
Per90HalfwayUp ==
  /\ Written
  /\ HasLeaderboards
  /\ Len(GoalScorers) = 1
  /\ GoalScorers[1].goals.n = 1
  /\ GoalScorers[1].minutes.n = 400
  /\ GoalScorers[1].goals_per_90 = JFloat(23, 2)

Per90HalfwayDown ==
  /\ Written
  /\ HasLeaderboards
  /\ Len(GoalScorers) = 1
  /\ GoalScorers[1].goals.n = 3
  /\ GoalScorers[1].minutes.n = 400
  /\ GoalScorers[1].goals_per_90 = JFloat(67, 2)

(***************************************************************************)
(* xG records of traded players                                            *)
(***************************************************************************)
\* The teams an xG record lists, each without the whitespace around it.
TeamsListed(k) == {XgRecords[k].team[j].name : j \in 1..Len(XgRecords[k].team)}

\* The records of the file that list more than one team.
Traded == {k \in 1..Len(XgRecords) : Len(XgRecords[k].team) > 1}

\* Record k is what the name index (1: short name, 2: full name), the
\* last-name index (3) or the substring index (5) of the row's team holds for
\* the fantasy row, and no strategy finds another record.
FoundAlone(p, k, s) ==
  /\ k \in StrategyHits(p)[s]
  /\ \A t \in 1..5 : \A j \in StrategyHits(p)[t] : XgRecords[j] = XgRecords[k]

\* C24: an xG record whose team field is a comma-separated list of teams is
\* found for a fantasy player of each of those teams, the whitespace around
\* a team name left aside, through the name, the last-name and the per-team
\* substring index, and for a fantasy player of no other team.
C24_TradedPlayers ==
  Enriching =>
    \A k \in Traded :
      /\ \A i \in 1..Len(GoalScorers) : \A p \in FantasyRowsOf(GoalScorers[i]) :
           /\ p.team \notin TeamsListed(k) => ~ScorerHas(GoalScorers[i], k)
           /\ \A s \in {1, 2, 3, 5} : FoundAlone(p, k, s) => ScorerHas(GoalScorers[i], k)
      /\ \A i \in 1..Len(AssistLeaders) : \A p \in FantasyRowsOf(AssistLeaders[i]) :
           /\ p.team \notin TeamsListed(k) => ~AssisterHas(AssistLeaders[i], k)
           /\ \A s \in {1, 2, 3, 5} : FoundAlone(p, k, s) => AssisterHas(AssistLeaders[i], k)

\* The row of team t was given the record of the traded player, which
\* strategy s found.
TradedFound(t, s) ==
  /\ Enriching
  /\ \E k \in Traded : \E i \in 1..Len(GoalScorers) : \E p \in FantasyRowsOf(GoalScorers[i]) :
       /\ p.team = t
       /\ FoundAlone(p, k, s)
       /\ StrategyHits(p)[s] = {k}
       /\ \A u \in 1..(s - 1) : StrategyHits(p)[u] = {}
       /\ ScorerHas(GoalScorers[i], k)

\* The record is found by its last name for a player of Arsenal, the team
\* listed after a blank.
C24_Witness == TradedFound("Arsenal", 3)

\* A player of a team the record does not list, with the record's name, is
\* given nothing.
TradedNotFound ==
  /\ Enriching
  /\ Len(XgRecords) = 1
  /\ Traded = {1}
  /\ \E i \in 1..Len(GoalScorers) : \E p \in FantasyRowsOf(GoalScorers[i]) :
       /\ p.team \notin TeamsListed(1)
       /\ p.player_name = XgRecords[1].player_name
       /\ GoalScorers[i].xg = JNone

(***************************************************************************)
(* The xG table of the written document                                    *)
(***************************************************************************)
HasXgTable == Written /\ output_file.items.xg_table # JNone

XgTable ==
  [i \in 1..Len(output_file.items.xg_table.elems) |->
     output_file.items.xg_table.elems[i].items]

\* The points of the league-table row of that team, 0 without such a row.
TablePointsOf(team) ==
  IF \E i \in 1..Len(LeagueTable) : LeagueTable[i].team.s = team
  THEN LeagueTable[CHOOSE i \in 1..Len(LeagueTable) : LeagueTable[i].team.s = team].points.n
  ELSE 0

\* xg_for - xg_against of a row, in hundredths.
XgDifference(row) == Scaled(row.xg_for, 2) - Scaled(row.xg_against, 2)

\* C25: the xG table has one row per record of xg_teams.csv, every row's
\* actual_points is the points of the league-table row of the same team (0
\* when the league table has no such team), and the rows descend by
\* xg_for - xg_against.
C25_XgTable ==
  HasXgTable =>
    /\ Len(XgTable) = Len(xg_teams_file.rows)
    /\ \A k \in 1..Len(xg_teams_file.rows) :
         Cardinality({i \in 1..Len(XgTable) :
                        XgTable[i].team.s = xg_teams_file.rows[k].team}) = 1
    /\ \A i \in 1..Len(XgTable) :
         XgTable[i].actual_points = JInt(TablePointsOf(XgTable[i].team.s))
    /\ \A i, j \in 1..Len(XgTable) :
         i < j => XgDifference(XgTable[i]) >= XgDifference(XgTable[j])

\* A written xG table with a team that has points, a team that played and has
\* none, and a team without a league-table row, in another order than the
\* records of xg_teams.csv.
C25_Witness ==
  /\ HasXgTable
  /\ \E i, j, k \in 1..Len(XgTable) :
       /\ XgTable[i].actual_points.n > 0
       /\ XgTable[j].actual_points.n = 0
       /\ \E r \in 1..Len(LeagueTable) : LeagueTable[r].team.s = XgTable[j].team.s
       /\ XgTable[k].actual_points.n = 0
       /\ \A r \in 1..Len(LeagueTable) : LeagueTable[r].team.s # XgTable[k].team.s
  /\ \E i \in 1..Len(XgTable) : XgTable[i].team.s # xg_teams_file.rows[i].team

(***************************************************************************)
(* The goal scorers of the written document                                *)
(***************************************************************************)
HasGoalScorers == Written /\ HasLeaderboards

FantasyRows == {players_file.rows[n] : n \in 1..Len(players_file.rows)}

\* The fantasy rows that no row of the goal scorers list was made from.
LeftOutOfGoalScorers ==
  {p \in FantasyRows : \A i \in 1..Len(GoalScorers) : p \notin FantasyRowsOf(GoalScorers[i])}

\* C26: the goal scorers list holds at most 20 players, goals never increase
\* down the list, the rank fields are 1, 2, ... in list order, and no player
\* left out of the list has more goals than a player in it.
C26_GoalScorers ==
  HasGoalScorers =>
    /\ Len(GoalScorers) <= 20
    /\ \A i, j \in 1..Len(GoalScorers) :
         i < j => GoalScorers[i].goals.n >= GoalScorers[j].goals.n
    /\ \A i \in 1..Len(GoalScorers) : GoalScorers[i].rank = JInt(i)
    /\ \A p \in LeftOutOfGoalScorers : \A i \in 1..Len(GoalScorers) :
         p.goals <= GoalScorers[i].goals.n

\* A written list of 20 players with a scorer left out, and the player with
\* the most goals not first in players.csv.
C26_Witness ==
  /\ HasGoalScorers
  /\ Len(GoalScorers) = 20
  /\ \E p \in LeftOutOfGoalScorers : p.goals > 0
  /\ players_file.rows[1] \notin FantasyRowsOf(GoalScorers[1])

\* A written list of fewer players, two of them with the same goals, above a
\* player with fewer goals who comes first in players.csv.
GoalScorersLevel ==
  /\ HasGoalScorers
  /\ Len(GoalScorers) = 3
  /\ GoalScorers[1].goals = GoalScorers[2].goals
  /\ GoalScorers[2].goals.n > GoalScorers[3].goals.n
  /\ players_file.rows[1] \in FantasyRowsOf(GoalScorers[3])

(***************************************************************************)
(* The iron men of the written document                                    *)
(***************************************************************************)
IronMen ==
  [i \in 1..Len(Leaderboards.iron_men.elems) |-> Leaderboards.iron_men.elems[i].items]

\* The minutes of the fantasy players of a team.
MinutesOf(team) == {p.minutes : p \in {q \in FantasyRows : q.team = team}}

\* C27: the iron men list has exactly one entry for every team of
\* players.csv and for no other, the entry's minutes are the most minutes of
\* a player of that team, and the list descends by minutes.
C27_IronMen ==
  HasGoalScorers =>
    /\ {IronMen[i].team.s : i \in 1..Len(IronMen)} = {p.team : p \in FantasyRows}
    /\ \A i, j \in 1..Len(IronMen) : IronMen[i].team = IronMen[j].team => i = j
    /\ \A i \in 1..Len(IronMen) :
         /\ IronMen[i].minutes.n \in MinutesOf(IronMen[i].team.s)
         /\ \A m \in MinutesOf(IronMen[i].team.s) : m <= IronMen[i].minutes.n
    /\ \A i, j \in 1..Len(IronMen) :
         i < j => IronMen[i].minutes.n >= IronMen[j].minutes.n

\* A written list that is not in the alphabetical order of the teams, with a
\* team whose entry is not its first player in players.csv.
C27_Witness ==
  /\ HasGoalScorers
  /\ \E i, j \in 1..Len(IronMen) :
       /\ i < j
       /\ TeamRank(IronMen[i].team.s) > TeamRank(IronMen[j].team.s)
       /\ IronMen[i].minutes.n > IronMen[j].minutes.n
  /\ \E i \in 1..Len(IronMen) : \E n \in 1..Len(players_file.rows) :
       /\ players_file.rows[n].team = IronMen[i].team.s
       /\ players_file.rows[n].minutes < IronMen[i].minutes.n
       /\ \A k \in 1..(n - 1) : players_file.rows[k].team # IronMen[i].team.s

\* A written list of four teams.
IronMenOfFour == HasGoalScorers /\ Len(IronMen) = 4

\* A written list of two teams whose entries have the same minutes, one of
\* them above a teammate with fewer.
IronMenLevel ==
  /\ HasGoalScorers
  /\ Len(IronMen) = 2
  /\ IronMen[1].minutes = IronMen[2].minutes
  /\ \E p \in FantasyRows : p.minutes < IronMen[1].minutes.n

(***************************************************************************)
(* The monthly trends of the written document                              *)
(***************************************************************************)
MonthlyTrends ==
  [i \in 1..Len(output_file.items.monthly_trends.elems) |->
     output_file.items.monthly_trends.elems[i].items]

\* The current-season matches of a year and month (yyyymm).
PlayedIn(ym) == SelectSeq(CurrentRows, LAMBDA r : r.date \div 100 = ym)

\* C28: the monthly trends partition the matches of the current season by
\* year and month: the months are distinct and ascend, every row counts the
\* matches of its month, the match counts add up to the matches played and
\* the total goals to the goals of the season, and in every month home wins,
\* draws and away wins add up to the month's matches.
C28_MonthlyTrends ==
  Written =>
    /\ \A i, j \in 1..Len(MonthlyTrends) :
         i < j => MonthlyTrends[i].month.s < MonthlyTrends[j].month.s
    /\ \A i \in 1..Len(MonthlyTrends) :
         LET row == MonthlyTrends[i]
         IN  /\ row.matches.n = Len(PlayedIn(row.month.s))
             /\ row.matches.n > 0
             /\ row.home_wins.n + row.draws.n + row.away_wins.n = row.matches.n
    /\ SeqSum(Column(Column(MonthlyTrends, "matches"), "n")) = Len(CurrentRows)
    /\ SeqSum(Column(Column(MonthlyTrends, "total_goals"), "n"))
         = SeqSum(Column(CurrentRows, "total_goals"))

\* A written document with two months, the later one first in
\* matches_clean.csv, and a month of two matches with different results and
\* goals.
C28_Witness ==
  /\ Written
  /\ Len(MonthlyTrends) = 2
  /\ Len(CurrentRows) = 3
  /\ CurrentRows[1].date \div 100 = MonthlyTrends[2].month.s
  /\ \E i \in 1..2 :
       /\ MonthlyTrends[i].matches.n = 2
       /\ MonthlyTrends[i].total_goals.n > 0
       /\ MonthlyTrends[i].home_wins.n = 1
       /\ MonthlyTrends[i].draws.n + MonthlyTrends[i].away_wins.n = 1

(***************************************************************************)
(* Teams level in the league table                                         *)
(***************************************************************************)
\* The rows are level on points, goal difference and goals for.
Level(a, b) ==
  /\ a.points = b.points
  /\ a.goal_difference = b.goal_difference
  /\ a.goals_for = b.goals_for

\* The first row of matches_clean.csv of the current season that names the team.
FirstNamed(team) ==
  CHOOSE n \in 1..Len(CurrentRows) :
    /\ team \in {CurrentRows[n].home_team, CurrentRows[n].away_team}
    /\ \A k \in 1..(n - 1) : team \notin {CurrentRows[k].home_team, CurrentRows[k].away_team}

\* C29: teams level on points, goal difference and goals for are in the
\* league table in ascending order of their names.
C29_LevelTeamsByName ==
  Written =>
    \A i, j \in 1..Len(LeagueTable) :
      (i < j /\ Level(LeagueTable[i], LeagueTable[j]))
        => TeamRank(LeagueTable[i].team.s) < TeamRank(LeagueTable[j].team.s)

\* A written table with two level teams where the team that is named later
\* in matches_clean.csv comes first, and a team between them in the alphabet
\* elsewhere in the table.
C29_Witness ==
  /\ Written
  /\ \E i, j \in 1..Len(LeagueTable) :
       /\ i < j
       /\ Level(LeagueTable[i], LeagueTable[j])
       /\ \/ FirstNamed(LeagueTable[j].team.s) < FirstNamed(LeagueTable[i].team.s)
          \/ /\ FirstNamed(LeagueTable[j].team.s) = FirstNamed(LeagueTable[i].team.s)
             /\ CurrentRows[FirstNamed(LeagueTable[j].team.s)].home_team = LeagueTable[j].team.s
       /\ \E k \in 1..Len(LeagueTable) :
            /\ ~Level(LeagueTable[k], LeagueTable[i])
            /\ TeamRank(LeagueTable[i].team.s) < TeamRank(LeagueTable[k].team.s)
            /\ TeamRank(LeagueTable[k].team.s) < TeamRank(LeagueTable[j].team.s)

(***************************************************************************)
(* Totals of the league table                                              *)
(***************************************************************************)
\* The sum of an integer field over the rows of the league table.
TableTotal(field) == SeqSum(Column(Column(LeagueTable, field), "n"))

DrawnMatches == SelectSeq(CurrentRows, LAMBDA r : r.result = "D")

\* C30: over the teams of the league table, played adds up to twice the
\* matches, won to lost, drawn to twice the drawn matches and goals_for to
\* goals_against; for every team played is won + drawn + lost, and each of
\* them is its home and away parts added.
C30_TableTotals ==
  Written =>
    /\ TableTotal("played") = 2 * Len(CurrentRows)
    /\ TableTotal("won") = TableTotal("lost")
    /\ TableTotal("drawn") = 2 * Len(DrawnMatches)
    /\ TableTotal("goals_for") = TableTotal("goals_against")
    /\ \A i \in 1..Len(LeagueTable) :
         LET r == LeagueTable[i]
         IN  /\ r.played.n = r.won.n + r.drawn.n + r.lost.n
             /\ r.played.n = r.home_won.n + r.home_drawn.n + r.home_lost.n
                              + r.away_won.n + r.away_drawn.n + r.away_lost.n
             /\ r.won.n = r.home_won.n + r.away_won.n
             /\ r.drawn.n = r.home_drawn.n + r.away_drawn.n
             /\ r.lost.n = r.home_lost.n + r.away_lost.n

\* A written table of three matches, one of them drawn, one won at home and
\* one won away, with a team that played at home and away.
C30_Witness ==
  /\ Written
  /\ Len(CurrentRows) = 3
  /\ Len(DrawnMatches) = 1
  /\ \E i, j \in 1..Len(LeagueTable) :
       LeagueTable[i].home_won.n > 0 /\ LeagueTable[j].away_won.n > 0
  /\ \E i \in 1..Len(LeagueTable) :
       /\ LeagueTable[i].home_won.n + LeagueTable[i].home_drawn.n + LeagueTable[i].home_lost.n > 0
       /\ LeagueTable[i].away_won.n + LeagueTable[i].away_drawn.n + LeagueTable[i].away_lost.n > 0
  /\ TableTotal("goals_for") > 0

====
